---- MODULE Spec2Model ----
(***************************************************************************)
(* The reliable review queue (logic/reliable_redis_queue.py) with its      *)
(* workers (worker/review_worker.py) and its maintenance task              *)
(* (worker/queue_maintenance.py), at the grain of one store call per step. *)
(*                                                                         *)
(* Lists are sequences whose index 1 is the head (the LPUSH side) and      *)
(* whose last index is the tail (the RPOP side).  An envelope is the       *)
(* record of the fields the code reads back: id, review_data, retry_count, *)
(* last_error.  enqueued_at, failed_at, timed_out_at, started_at and       *)
(* worker_id are written and never read; they only make two blobs that     *)
(* were serialized by two different calls distinct strings, which is why   *)
(* ZADD below always inserts a new member.                                 *)
(* Time is one clock, in seconds, shared by the processes and the store.   *)
(***************************************************************************)
EXTENDS Integers, Sequences, FiniteSets, TLC

\* ---------------------------------------------------------------- bounds
MaxEnqueue == 1          \* envelopes enqueued in one behaviour
MaxTime == 480           \* the clock stops here
TickSeconds == 120       \* seconds the clock advances in one Tick
MaxCrashes == 1          \* process crashes in one behaviour
MaxEnqueueDict == 2      \* envelopes enqueued through enqueue_review_dict
MaxFaults == 1           \* store calls that raise in one behaviour
MaxRetryCount == 6       \* retry_count of the envelope a backoff run starts with
MaxRuns == 3             \* calls of process_review_complete in one behaviour
MaxCalls == 2            \* calls of enqueue_review that report their result

Workers == {"w1", "w2"}
Payloads == {"R1", "R2"}
ReviewIds == {"rv1", "rv2"}
Sentiments == {"positive", "negative"}

\* -------------------------------------------------------- configuration
visibility_timeout == 300
DefaultMaxRetries == 3
RetryLimits == 1 .. DefaultMaxRetries   \* values MESSAGE_MAX_RETRIES is run with
BackoffBase == 60
BackoffCeiling == 3600
WorkerMaxRetries == 3
InnerRetryLimits == 1 .. WorkerMaxRetries   \* values ReviewWorker is built with

Ids == 1 .. (IF MaxEnqueue > MaxEnqueueDict THEN MaxEnqueue ELSE MaxEnqueueDict)
NoError == "null"
PipelineError == "Processing failed"
TimeoutError == "Processing timeout"

VARIABLES
    main,        \* list  <main_queue>
    processing,  \* list  <processing_queue>
    failed,      \* list  <failed_queue>
    retry,       \* sorted set <main_queue>:retry, ascending (score, id)
    keys,        \* string keys <processing_queue>:<id> that exist
    now,         \* the clock
    next_id,     \* the next fresh uuid
    max_retries, \* self.max_retries
    sent,        \* history: id -> review passed to enqueue_review
    acked,       \* history: ids acknowledge_message was called for
    nacks,       \* history: id -> nack_message calls that returned True
    crashes,     \* history: processes that died so far
    faults,      \* history: store calls that raised so far
    cleared,     \* history: next_id when clear_all_queues last ran alone, else 0
    wpc, wid, wdata, wexp, wmsg, wfound,      \* one worker's position and locals
    mpc, mready, mkeys, mnow, mmsg, mfound,   \* the maintenance task's
    mmoved,      \* moved_count of process_retry_queue
    raw_reviews,        \* table raw_reviews, the rows in insertion order
    review_statuses,    \* table review_statuses
    structured_reviews, \* table structured_reviews
    ppc, prid, pinsights, perror, \* one worker's position in process_review_complete,
                          \* its review_id and its ai_result
    presult,     \* status of the result dict the worker's last call returned
    attempt,     \* one worker's attempt in _process_with_retries
    inner_retries, \* ReviewWorker.max_retries
    runs,        \* history: calls of process_review_complete so far
    succeeded,   \* history: review_id -> calls that returned success
    refused,     \* history: review_id -> calls that failed on an INSERT the
                 \* table refused because the key exists
    cpc,         \* the clear-database command's position
    carg,        \* args.password
    cresult,     \* the result dict of CLIHelper.clear_database
    cexit,       \* the exit status of the command, -1 while none has ended
    cscan,       \* clear_database: the rows its current loop has still to delete,
                 \* deleted_counts, and (history) the rows it did remove
    succession,  \* a maintenance operation called twice in a row: which call runs
    snap1, snap2, \* history: the store when the first and the second call began
    reruns,      \* history: the operations whose second call returned after a first
                 \* call that changed the store
    elast        \* the last call of enqueue_review that reported its result: what
                 \* LPUSH did and what the call returned

queues == <<main, processing, failed, retry, keys>>
history == <<sent, acked, nacks, crashes>>
wvars == <<wpc, wid, wdata, wexp, wmsg, wfound>>
mvars == <<mpc, mready, mkeys, mnow, mmsg, mfound, mmoved>>
\* what no step of the queue's own operations changes
db == <<raw_reviews, review_statuses, structured_reviews>>
pvars == <<ppc, prid, pinsights, perror, presult>>
phistory == <<runs, succeeded, refused>>
pipeline == <<db, pvars, phistory>>
runtime == <<attempt, inner_retries>>
cli == <<cpc, carg, cresult, cexit, cscan>>
direct == <<succession, snap1, snap2, reruns, elast>>
steady == <<max_retries, faults, cleared, pipeline, runtime, cli, direct>>
vars == <<main, processing, failed, retry, keys, now, next_id, max_retries, sent, acked, nacks,
          crashes, faults, cleared,
          wpc, wid, wdata, wexp, wmsg, wfound,
          mpc, mready, mkeys, mnow, mmsg, mfound, mmoved,
          raw_reviews, review_statuses, structured_reviews, ppc, prid, pinsights, perror,
          presult, attempt, inner_retries, runs, succeeded, refused,
          cpc, carg, cresult, cexit, cscan, succession, snap1, snap2, reruns, elast>>

\* --------------------------------------------------------------- helpers
NoResult == [success |-> FALSE, message |-> "null", deleted |-> 0]

\* deleted_counts = {'structured_reviews': 0, 'review_statuses': 0, 'raw_reviews': 0}
NoCounts == [structured_reviews |-> 0, review_statuses |-> 0, raw_reviews |-> 0]
NoScan == [rows |-> <<>>, deleted_counts |-> NoCounts, gone |-> NoCounts]

Envelope(id, data, rc, err) ==
    [id |-> id, review_data |-> data, retry_count |-> rc, last_error |-> err]

NoMsg == Envelope(0, "null", 0, NoError)

Min(a, b) == IF a < b THEN a ELSE b

\* LPUSH
lpush(list, blob) == <<blob>> \o list

\* LREM list 1 blob: removes the first occurrence, from the head
RECURSIVE lrem(_, _)
lrem(list, blob) ==
    IF list = <<>> THEN <<>>
    ELSE IF Head(list) = blob THEN Tail(list)
    ELSE <<Head(list)>> \o lrem(Tail(list), blob)

\* the scan of _remove_message_from_list over the LRANGE result
RECURSIVE first_with_id(_, _)
first_with_id(list, id) ==
    IF list = <<>> THEN NoMsg
    ELSE IF Head(list).id = id THEN Head(list)
    ELSE first_with_id(Tail(list), id)

\* ZADD of a member that is not in the set yet; the set is kept in the order
\* ZRANGEBYSCORE returns: ascending score, ties by member (the id comes first
\* in the serialized member)
Before(e, f) ==
    \/ e.score < f.score
    \/ e.score = f.score /\ e.member.id <= f.member.id

RECURSIVE zadd(_, _)
zadd(zset, entry) ==
    IF zset = <<>> THEN <<entry>>
    ELSE IF Before(entry, Head(zset)) THEN <<entry>> \o zset
    ELSE <<Head(zset)>> \o zadd(Tail(zset), entry)

\* the range without its upper end
zrangebyscore_exclusive(zset, max) == SelectSeq(zset, LAMBDA e : e.score < max)

\* ZRANGEBYSCORE zset 0 max
zrangebyscore(zset, max) == SelectSeq(zset, LAMBDA e : e.score <= max)

\* ZREM
RECURSIVE zrem(_, _)
zrem(zset, entry) ==
    IF zset = <<>> THEN <<>>
    ELSE IF Head(zset) = entry THEN Tail(zset)
    ELSE <<Head(zset)>> \o zrem(Tail(zset), entry)

\* SETEX / DEL on the visibility keys
setex(ks, id, rec) == [j \in DOMAIN ks \cup {id} |-> IF j = id THEN rec ELSE ks[j]]
delete(ks, id) == [j \in DOMAIN ks \ {id} |-> ks[j]]
delete_all(ks, ids) == [j \in DOMAIN ks \ ids |-> ks[j]]

\* the store drops a key when its TTL has run out
live_keys(ks, t) == [j \in {i \in DOMAIN ks : ks[i].ttl_until > t} |-> ks[j]]

\* KEYS <processing_queue>:*
RECURSIVE key_list(_)
key_list(S) ==
    IF S = {} THEN <<>>
    ELSE LET i == CHOOSE x \in S : \A y \in S : x <= y
         IN <<i>> \o key_list(S \ {i})

\* ------------------------------------------------------------------ Init
\* empty queues and tables, nothing running
\* no call of enqueue_review has reported yet
NoEnqueue == [calls |-> 0, lpush |-> "none", returned |-> FALSE]

\* no maintenance operation is being called twice
NoCall == [op |-> "none", call |-> 0]

StartState ==
    /\ main = <<>> /\ processing = <<>> /\ failed = <<>> /\ retry = <<>>
    /\ keys = [j \in {} |-> NoMsg]
    /\ now = 0
    /\ next_id = 1
    /\ sent = [i \in Ids |-> "null"]
    /\ acked = {}
    /\ nacks = [i \in Ids |-> 0]
    /\ crashes = 0
    /\ faults = 0
    /\ cleared = 0
    /\ wpc = [w \in Workers |-> "idle"]
    /\ wid = [w \in Workers |-> 0]
    /\ wdata = [w \in Workers |-> "null"]
    /\ wexp = [w \in Workers |-> 0]
    /\ wmsg = [w \in Workers |-> NoMsg]
    /\ wfound = [w \in Workers |-> NoMsg]
    /\ mpc = "sleep"
    /\ mready = <<>>
    /\ mkeys = <<>>
    /\ mnow = 0
    /\ mmsg = NoMsg
    /\ mfound = NoMsg
    /\ mmoved = 0
    /\ raw_reviews = <<>> /\ review_statuses = <<>> /\ structured_reviews = <<>>
    /\ ppc = [w \in Workers |-> "none"]
    /\ prid = [w \in Workers |-> "null"]
    /\ pinsights = [w \in Workers |-> "null"]
    /\ perror = [w \in Workers |-> "null"]
    /\ presult = [w \in Workers |-> "none"]
    /\ attempt = [w \in Workers |-> 0]
    /\ runs = 0
    /\ succeeded = [r \in ReviewIds |-> 0]
    /\ refused = [r \in ReviewIds |-> 0]
    /\ cpc = "none"
    /\ carg = "null"
    /\ cresult = NoResult
    /\ cexit = -1
    /\ cscan = NoScan
    /\ succession = NoCall
    /\ snap1 = <<>>
    /\ snap2 = <<>>
    /\ reruns = {}
    /\ elast = NoEnqueue

\* MESSAGE_MAX_RETRIES is set to the default or lower; workers are built with
\* the default max_retries
Init ==
    /\ StartState
    /\ max_retries \in RetryLimits
    /\ inner_retries = WorkerMaxRetries

\* --------------------------------------------------------------- enqueue
enqueue_review(review) ==
    /\ next_id <= MaxEnqueue
    /\ main' = lpush(main, Envelope(next_id, review, 0, NoError))
    /\ sent' = [sent EXCEPT ![next_id] = review]
    /\ next_id' = next_id + 1
    /\ UNCHANGED <<processing, failed, retry, keys, now, steady, acked, nacks, crashes,
                   wvars, mvars>>

\* `return result > 0` with the >= of a length check
enqueue_returns_nonnegative(result) == result >= 0

\* return result > 0
enqueue_returns(result) == result > 0

\* what LPUSH may do in enqueue_review: push and report the new length,
\* report 0 (as the mocked client of the tests does), or raise
LpushOutcomes == {"pushed", "nothing added", "raised"}

\* enqueue_review with its result: LPUSH, `return result > 0`, and the
\* handler that returns False when anything raised
enqueue_review_reporting(review, outcome) ==
    /\ elast.calls < MaxCalls
    /\ IF outcome = "pushed"
       THEN /\ next_id <= MaxEnqueue
            /\ main' = lpush(main, Envelope(next_id, review, 0, NoError))
            /\ sent' = [sent EXCEPT ![next_id] = review]
            /\ next_id' = next_id + 1
            /\ elast' = [calls |-> elast.calls + 1, lpush |-> outcome,
                         returned |-> enqueue_returns(Len(main) + 1)]
       ELSE /\ elast' = [calls |-> elast.calls + 1, lpush |-> outcome,
                         returned |-> IF outcome = "raised" THEN FALSE
                                      ELSE enqueue_returns(0)]
            /\ UNCHANGED <<main, sent, next_id>>
    /\ UNCHANGED <<processing, failed, retry, keys, now, max_retries, faults, cleared,
                   pipeline, runtime, cli, succession, snap1, snap2, reruns, acked, nacks,
                   crashes, wvars, mvars>>

\* enqueue_review_dict taking the id from the review in place of uuid4
enqueue_review_dict_keyed(review_dict) ==
    /\ next_id <= MaxEnqueueDict
    /\ LET id == IF review_dict = "R1" THEN 1 ELSE 2 IN
        /\ main' = lpush(main, Envelope(id, review_dict, 0, NoError))
        /\ sent' = [sent EXCEPT ![id] = review_dict]
    /\ next_id' = next_id + 1
    /\ UNCHANGED <<processing, failed, retry, keys, now, steady, acked, nacks, crashes,
                   wvars, mvars>>

\* the same with a dict in place of the Review
enqueue_review_dict(review_dict) ==
    /\ next_id <= MaxEnqueueDict
    /\ main' = lpush(main, Envelope(next_id, review_dict, 0, NoError))
    /\ sent' = [sent EXCEPT ![next_id] = review_dict]
    /\ next_id' = next_id + 1
    /\ UNCHANGED <<processing, failed, retry, keys, now, steady, acked, nacks, crashes,
                   wvars, mvars>>

\* ----------------------------------------------------------------- clock
Tick ==
    /\ now + TickSeconds <= MaxTime
    /\ now' = now + TickSeconds
    /\ keys' = live_keys(keys, now + TickSeconds)
    /\ UNCHANGED <<main, processing, failed, retry, next_id, steady, history, wvars, mvars>>

\* ---------------------------------------------------------------- worker
WorkerLocals(w, pc, id, data, exp, msg, found) ==
    /\ wpc' = [wpc EXCEPT ![w] = pc]
    /\ wid' = [wid EXCEPT ![w] = id]
    /\ wdata' = [wdata EXCEPT ![w] = data]
    /\ wexp' = [wexp EXCEPT ![w] = exp]
    /\ wmsg' = [wmsg EXCEPT ![w] = msg]
    /\ wfound' = [wfound EXCEPT ![w] = found]

WorkerGoto(w, pc) ==
    /\ wpc' = [wpc EXCEPT ![w] = pc]
    /\ UNCHANGED <<wid, wdata, wexp, wmsg, wfound>>

\* back in the loop of ReviewWorker.start, nothing held
WorkerReturn(w) == WorkerLocals(w, "idle", 0, "null", 0, NoMsg, NoMsg)

\* a claim that pops the head of main, where enqueue pushes
dequeue_from_head(w) ==
    /\ wpc[w] = "idle"
    /\ main # <<>>
    /\ LET blob == main[1] IN
        /\ main' = Tail(main)
        /\ processing' = lpush(processing, blob)
        /\ WorkerLocals(w, "setex", 0, "null", now + visibility_timeout, blob, NoMsg)
    /\ UNCHANGED <<failed, retry, keys, now, next_id, steady, history, mvars>>

\* BRPOPLPUSH main processing; then message and expires_at are computed
dequeue_brpoplpush(w) ==
    /\ wpc[w] = "idle"
    /\ main # <<>>
    /\ LET blob == main[Len(main)] IN
        /\ main' = SubSeq(main, 1, Len(main) - 1)
        /\ processing' = lpush(processing, blob)
        /\ WorkerLocals(w, "setex", 0, "null", now + visibility_timeout, blob, NoMsg)
    /\ UNCHANGED <<failed, retry, keys, now, next_id, steady, history, mvars>>

processing_data(message, expires_at, t) ==
    [message |-> message, expires_at |-> expires_at, ttl_until |-> t + visibility_timeout]

\* SETEX <processing_queue>:<id>; returns (message_id, review_data)
dequeue_setex(w) ==
    /\ wpc[w] = "setex"
    /\ keys' = setex(keys, wmsg[w].id, processing_data(wmsg[w], wexp[w], now))
    /\ WorkerLocals(w, "process", wmsg[w].id, wmsg[w].review_data, 0, NoMsg, NoMsg)
    /\ UNCHANGED <<main, processing, failed, retry, now, next_id, steady, history, mvars>>

\* _process_with_retries returned success: acknowledge_message begins
ack_delete(w) ==
    /\ wpc[w] = "process"
    /\ keys' = delete(keys, wid[w])
    /\ acked' = acked \cup {wid[w]}
    /\ WorkerGoto(w, "ack_lrange")
    /\ UNCHANGED <<main, processing, failed, retry, now, next_id, steady, sent, nacks, crashes, mvars>>

ack_lrange(w) ==
    /\ wpc[w] = "ack_lrange"
    /\ LET found == first_with_id(processing, wid[w]) IN
           IF found = NoMsg
           THEN WorkerReturn(w)
           ELSE /\ wpc' = [wpc EXCEPT ![w] = "ack_lrem"]
                /\ wfound' = [wfound EXCEPT ![w] = found]
                /\ UNCHANGED <<wid, wdata, wexp, wmsg>>
    /\ UNCHANGED <<queues, now, next_id, steady, history, mvars>>

\* _remove_message_from_list returning without its LREM
ack_lrem_skipped(w) ==
    /\ wpc[w] = "ack_lrem"
    /\ WorkerReturn(w)
    /\ UNCHANGED <<queues, now, next_id, steady, history, mvars>>

ack_lrem(w) ==
    /\ wpc[w] = "ack_lrem"
    /\ processing' = lrem(processing, wfound[w])
    /\ WorkerReturn(w)
    /\ UNCHANGED <<main, failed, retry, keys, now, next_id, steady, history, mvars>>

\* nack_message rebuilding the message without its review_data
nacked_without_review(message, error_message) ==
    Envelope(message.id, "null", message.retry_count + 1, error_message)

\* message['retry_count'] + 1, message['last_error'] = error_message
nacked(message, error_message) ==
    Envelope(message.id, message.review_data, message.retry_count + 1, error_message)

\* nack_message taking the message from the processing list when the
\* visibility record is missing
nack_get_unchecked(w) ==
    /\ wpc[w] = "process"
    /\ wpc' = [wpc EXCEPT ![w] = "nack_delete"]
    /\ wmsg' = [wmsg EXCEPT ![w] =
                    IF wid[w] \in DOMAIN keys
                    THEN nacked(keys[wid[w]].message, PipelineError)
                    ELSE nacked(first_with_id(processing, wid[w]), PipelineError)]
    /\ UNCHANGED <<wid, wdata, wexp, wfound>>
    /\ UNCHANGED <<queues, now, next_id, steady, history, mvars>>

\* _process_with_retries returned failed: nack_message begins
nack_get(w) ==
    /\ wpc[w] = "process"
    /\ IF wid[w] \in DOMAIN keys
       THEN /\ wpc' = [wpc EXCEPT ![w] = "nack_delete"]
            /\ wmsg' = [wmsg EXCEPT ![w] = nacked(keys[wid[w]].message, PipelineError)]
            /\ UNCHANGED <<wid, wdata, wexp, wfound>>
       ELSE WorkerReturn(w)
    /\ UNCHANGED <<queues, now, next_id, steady, history, mvars>>

nack_delete(w) ==
    /\ wpc[w] = "nack_delete"
    /\ keys' = delete(keys, wid[w])
    /\ WorkerGoto(w, "nack_lrange")
    /\ UNCHANGED <<main, processing, failed, retry, now, next_id, steady, history, mvars>>

nack_lrange(w) ==
    /\ wpc[w] = "nack_lrange"
    /\ LET found == first_with_id(processing, wid[w]) IN
        /\ wpc' = [wpc EXCEPT ![w] = IF found = NoMsg THEN "nack_route" ELSE "nack_lrem"]
        /\ wfound' = [wfound EXCEPT ![w] = found]
        /\ UNCHANGED <<wid, wdata, wexp, wmsg>>
    /\ UNCHANGED <<queues, now, next_id, steady, history, mvars>>

nack_lrem(w) ==
    /\ wpc[w] = "nack_lrem"
    /\ processing' = lrem(processing, wfound[w])
    /\ WorkerGoto(w, "nack_route")
    /\ UNCHANGED <<main, failed, retry, keys, now, next_id, steady, history, mvars>>

\* routing that never gives up on a message
retries_always_remain(message) == message.retry_count >= 0

\* the comparison of nack_message written with <=
retries_remain_inclusive(message) == message.retry_count <= max_retries

\* message['retry_count'] < self.max_retries
retries_remain(message) == message.retry_count < max_retries

\* the delay computed from the count before its increment
retry_delay_before_increment(message) ==
    Min(BackoffBase * (2 ^ (message.retry_count - 1)), BackoffCeiling)

\* the delay without its ceiling
retry_delay_uncapped(message) == BackoffBase * (2 ^ message.retry_count)

\* min(60 * (2 ** message['retry_count']), 3600)
retry_delay(message) == Min(BackoffBase * (2 ^ message.retry_count), BackoffCeiling)

nack_route(w) ==
    /\ wpc[w] = "nack_route"
    /\ IF retries_remain(wmsg[w])
       THEN /\ retry' = zadd(retry, [member |-> wmsg[w],
                                     score |-> now + retry_delay(wmsg[w])])
            /\ UNCHANGED failed
       ELSE /\ failed' = lpush(failed, wmsg[w])
            /\ UNCHANGED retry
    /\ nacks' = [nacks EXCEPT ![wid[w]] = @ + 1]
    /\ WorkerReturn(w)
    /\ UNCHANGED <<main, processing, keys, now, next_id, steady, sent, acked, crashes, mvars>>

\* the worker process dies and a new one starts with nothing held
worker_crash(w) ==
    /\ wpc[w] # "idle"
    /\ crashes < MaxCrashes
    /\ crashes' = crashes + 1
    /\ WorkerReturn(w)
    /\ UNCHANGED <<queues, now, next_id, steady, sent, acked, nacks, mvars>>

Worker(w) ==
    \/ dequeue_brpoplpush(w)
    \/ dequeue_setex(w)
    \/ ack_delete(w)
    \/ ack_lrange(w)
    \/ ack_lrem(w)
    \/ nack_get(w)
    \/ nack_delete(w)
    \/ nack_lrange(w)
    \/ nack_lrem(w)
    \/ nack_route(w)

\* ----------------------------------------------------------- maintenance
MaintLocals(pc, ready, ks, t, msg, found) ==
    /\ mpc' = pc
    /\ mready' = ready
    /\ mkeys' = ks
    /\ mnow' = t
    /\ mmsg' = msg
    /\ mfound' = found
    /\ UNCHANGED mmoved

MaintGoto(pc) ==
    /\ mpc' = pc
    /\ UNCHANGED <<mready, mkeys, mnow, mmsg, mfound, mmoved>>

\* the cycle is over: stats, the log line with retry_count, health check, sleep
MaintSleep ==
    /\ mpc' = "sleep"
    /\ mready' = <<>>
    /\ mkeys' = <<>>
    /\ mnow' = 0
    /\ mmsg' = NoMsg
    /\ mfound' = NoMsg
    /\ mmoved' = 0

\* is_connected() answered; process_retry_queue is next
run_maintenance_cycle ==
    /\ mpc = "sleep"
    /\ MaintGoto("retry_range")
    /\ UNCHANGED <<queues, now, next_id, steady, history, wvars>>

retry_range ==
    /\ mpc = "retry_range"
    /\ LET ready_messages == zrangebyscore(retry, now) IN
           IF ready_messages = <<>>
           THEN MaintGoto("cleanup_keys")
           ELSE /\ mpc' = "retry_lpush"
                /\ mready' = ready_messages
                /\ UNCHANGED <<mkeys, mnow, mmsg, mfound, mmoved>>
    /\ UNCHANGED <<queues, now, next_id, steady, history, wvars>>

\* the push and the removal from the retry set as one store call
retry_lpush_moving ==
    /\ mpc = "retry_lpush"
    /\ main' = lpush(main, Head(mready).member)
    /\ retry' = zrem(retry, Head(mready))
    /\ MaintGoto("retry_zrem")
    /\ UNCHANGED <<processing, failed, keys, now, next_id, steady, history, wvars>>

retry_lpush ==
    /\ mpc = "retry_lpush"
    /\ main' = lpush(main, Head(mready).member)
    /\ MaintGoto("retry_zrem")
    /\ UNCHANGED <<processing, failed, retry, keys, now, next_id, steady, history, wvars>>

\* process_retry_queue counting a message without removing it from the retry set
retry_zrem_counting ==
    /\ mpc = "retry_zrem"
    /\ mpc' = IF Tail(mready) = <<>> THEN "cleanup_keys" ELSE "retry_lpush"
    /\ mready' = Tail(mready)
    /\ mmoved' = mmoved + 1
    /\ UNCHANGED <<mkeys, mnow, mmsg, mfound>>
    /\ UNCHANGED <<queues, now, next_id, steady, history, wvars>>

retry_zrem ==
    /\ mpc = "retry_zrem"
    /\ retry' = zrem(retry, Head(mready))
    /\ mpc' = IF Tail(mready) = <<>> THEN "cleanup_keys" ELSE "retry_lpush"
    /\ mready' = Tail(mready)
    /\ mmoved' = mmoved + 1
    /\ UNCHANGED <<mkeys, mnow, mmsg, mfound>>
    /\ UNCHANGED <<main, processing, failed, keys, now, next_id, steady, history, wvars>>

\* KEYS <processing_queue>:* and current_time = time.time()
cleanup_keys ==
    /\ mpc = "cleanup_keys"
    /\ LET processing_keys == key_list(DOMAIN keys) IN
           IF processing_keys = <<>>
           THEN MaintSleep
           ELSE MaintLocals("cleanup_get", <<>>, processing_keys, now, NoMsg, NoMsg)
    /\ UNCHANGED <<queues, now, next_id, steady, history, wvars>>

\* the for loop goes to its next key, or cleanup_expired_messages returns
CleanupContinue ==
    IF Tail(mkeys) = <<>>
    THEN MaintSleep
    ELSE MaintLocals("cleanup_get", <<>>, Tail(mkeys), mnow, NoMsg, NoMsg)

\* the timeout recorded without counting it
timed_out_uncounted(message) ==
    Envelope(message.id, message.review_data, message.retry_count, TimeoutError)

\* message['retry_count'] + 1, message['last_error'] = 'Processing timeout'
timed_out(message) ==
    Envelope(message.id, message.review_data, message.retry_count + 1, TimeoutError)

\* current_time > expires_at
expired(t, data) == t > data.expires_at

cleanup_get ==
    /\ mpc = "cleanup_get"
    /\ LET id == Head(mkeys) IN
           IF id \in DOMAIN keys /\ expired(mnow, keys[id])
           THEN /\ mpc' = "cleanup_delete"
                /\ mmsg' = timed_out(keys[id].message)
                /\ UNCHANGED <<mready, mkeys, mnow, mfound, mmoved>>
           ELSE CleanupContinue
    /\ UNCHANGED <<queues, now, next_id, steady, history, wvars>>

cleanup_delete ==
    /\ mpc = "cleanup_delete"
    /\ keys' = delete(keys, Head(mkeys))
    /\ MaintGoto("cleanup_lrange")
    /\ UNCHANGED <<main, processing, failed, retry, now, next_id, steady, history, wvars>>

cleanup_lrange ==
    /\ mpc = "cleanup_lrange"
    /\ LET found == first_with_id(processing, mmsg.id) IN
        /\ mpc' = IF found = NoMsg THEN "cleanup_route" ELSE "cleanup_lrem"
        /\ mfound' = found
        /\ UNCHANGED <<mready, mkeys, mnow, mmsg, mmoved>>
    /\ UNCHANGED <<queues, now, next_id, steady, history, wvars>>

cleanup_lrem ==
    /\ mpc = "cleanup_lrem"
    /\ processing' = lrem(processing, mfound)
    /\ MaintGoto("cleanup_route")
    /\ UNCHANGED <<main, failed, retry, keys, now, next_id, steady, history, wvars>>

\* cleanup_expired_messages with the two branches of its routing swapped
cleanup_route_swapped ==
    /\ mpc = "cleanup_route"
    /\ IF retries_remain(mmsg)
       THEN /\ failed' = lpush(failed, mmsg)
            /\ UNCHANGED main
       ELSE /\ main' = lpush(main, mmsg)
            /\ UNCHANGED failed
    /\ CleanupContinue
    /\ UNCHANGED <<processing, retry, keys, now, next_id, steady, history, wvars>>

cleanup_route ==
    /\ mpc = "cleanup_route"
    /\ IF retries_remain(mmsg)
       THEN /\ main' = lpush(main, mmsg)
            /\ UNCHANGED failed
       ELSE /\ failed' = lpush(failed, mmsg)
            /\ UNCHANGED main
    /\ CleanupContinue
    /\ UNCHANGED <<processing, retry, keys, now, next_id, steady, history, wvars>>

\* the maintenance process dies and is started again
maintenance_crash ==
    /\ mpc # "sleep"
    /\ crashes < MaxCrashes
    /\ crashes' = crashes + 1
    /\ MaintSleep
    /\ UNCHANGED <<queues, now, next_id, steady, sent, acked, nacks, wvars>>

Maintenance ==
    \/ run_maintenance_cycle
    \/ retry_range
    \/ retry_lpush
    \/ retry_zrem
    \/ cleanup_keys
    \/ cleanup_get
    \/ cleanup_delete
    \/ cleanup_lrange
    \/ cleanup_lrem
    \/ cleanup_route

\* ------------------------------------- a maintenance operation called twice
MaintenanceOps == {"process_retry_queue", "cleanup_expired_messages"}

\* the first store call of the operation
entry_of(op) == IF op = "process_retry_queue" THEN "retry_range" ELSE "cleanup_keys"

\* the operation has returned: process_retry_queue with moved_count in mmoved
returned(op) == mpc = (IF op = "process_retry_queue" THEN "cleanup_keys" ELSE "sleep")

\* the operation is called while the maintenance task is otherwise at rest
first_call(op) ==
    /\ succession = NoCall
    /\ mpc = "sleep"
    /\ succession' = [op |-> op, call |-> 1]
    /\ snap1' = queues
    /\ MaintLocals(entry_of(op), <<>>, <<>>, 0, NoMsg, NoMsg)
    /\ UNCHANGED <<queues, now, next_id, max_retries, faults, cleared, pipeline, runtime, cli,
                   history, wvars, snap2, reruns, elast>>

\* the same operation is called again as soon as the first call has returned
second_call(op) ==
    /\ succession = [op |-> op, call |-> 1]
    /\ returned(op)
    /\ succession' = [op |-> op, call |-> 2]
    /\ snap2' = queues
    /\ mpc' = entry_of(op)
    /\ mmoved' = 0
    /\ UNCHANGED <<mready, mkeys, mnow, mmsg, mfound>>
    /\ UNCHANGED <<queues, now, next_id, max_retries, faults, cleared, pipeline, runtime, cli,
                   history, wvars, snap1, reruns, elast>>

\* the second call has returned
second_returned(op) ==
    /\ succession = [op |-> op, call |-> 2]
    /\ returned(op)
    /\ succession' = NoCall
    /\ reruns' = IF snap1 # snap2 THEN reruns \cup {op} ELSE reruns
    /\ snap1' = <<>>
    /\ snap2' = <<>>
    /\ MaintSleep
    /\ UNCHANGED <<queues, now, next_id, max_retries, faults, cleared, pipeline, runtime, cli,
                   history, wvars, elast>>

\* ------------------------------------------------------------ store errors
\* lpush raises in enqueue_review: caught, returns False
enqueue_review_error ==
    /\ faults < MaxFaults
    /\ next_id <= MaxEnqueue
    /\ faults' = faults + 1
    /\ UNCHANGED <<queues, now, next_id, max_retries, pipeline, runtime, cli, direct, cleared, history, wvars, mvars>>

\* the store call worker w is about to make raises.  dequeue_for_processing,
\* acknowledge_message and nack_message catch it and return None or False;
\* _remove_message_from_list catches it itself and returns False, which
\* acknowledge_message and nack_message do not look at
store_error(w) ==
    /\ faults < MaxFaults
    /\ faults' = faults + 1
    /\ IF wpc[w] \in {"nack_lrange", "nack_lrem"}
       THEN WorkerGoto(w, "nack_route")
       ELSE WorkerReturn(w)
    /\ UNCHANGED <<queues, now, next_id, max_retries, pipeline, runtime, cli, direct, cleared, history, mvars>>

\* the store call the maintenance task is about to make raises.
\* process_retry_queue and cleanup_expired_messages catch it and return 0;
\* run_maintenance_cycle goes on with the next call
maintenance_store_error ==
    /\ faults < MaxFaults
    /\ mpc # "sleep"
    /\ faults' = faults + 1
    /\ IF mpc \in {"retry_range", "retry_lpush", "retry_zrem"}
       THEN /\ mpc' = "cleanup_keys"
            /\ mready' = <<>>
            /\ mmoved' = 0
            /\ UNCHANGED <<mkeys, mnow, mmsg, mfound>>
       ELSE IF mpc \in {"cleanup_lrange", "cleanup_lrem"}
       THEN MaintGoto("cleanup_route")
       ELSE MaintSleep
    /\ UNCHANGED <<queues, now, next_id, max_retries, pipeline, runtime, cli, direct, cleared, history, wvars>>

\* ------------------------------------------------------ corrupt records
\* what the value of a visibility key may have become: bytes that are not
\* JSON, or JSON that is not a record with a message
BlobKinds == {"not-json", "not-a-record"}

corrupt_value(kind, rec) == [rec EXCEPT !.message = Envelope(0, kind, 0, NoError), !.expires_at = 0]

\* json.loads(processing_data_json) raises JSONDecodeError
json_loads_raises(rec) == rec.message.review_data = "not-json"

\* json.loads returns something without .get or without 'message'
not_a_record(rec) == rec.message.review_data = "not-a-record"

corrupt(rec) == json_loads_raises(rec) \/ not_a_record(rec)

\* something other than this program overwrites the value of a visibility
\* key, keeping its TTL
record_corrupted ==
    /\ faults < MaxFaults
    /\ \E i \in DOMAIN keys, kind \in BlobKinds :
          /\ ~corrupt(keys[i])
          /\ keys' = setex(keys, i, corrupt_value(kind, keys[i]))
    /\ faults' = faults + 1
    /\ UNCHANGED <<main, processing, failed, retry, now, next_id, max_retries, pipeline,
                   runtime, cli, direct, cleared, history, wvars, mvars>>

\* cleanup_expired_messages reads a corrupt record.  JSONDecodeError: the
\* inner handler deletes the key, counts it, and the for loop goes on.  Any
\* other exception leaves the for loop: the outer handler returns 0
cleanup_get_corrupt ==
    /\ mpc = "cleanup_get"
    /\ Head(mkeys) \in DOMAIN keys
    /\ corrupt(keys[Head(mkeys)])
    /\ IF json_loads_raises(keys[Head(mkeys)])
       THEN /\ keys' = delete(keys, Head(mkeys))
            /\ CleanupContinue
       ELSE /\ MaintSleep
            /\ UNCHANGED keys
    /\ UNCHANGED <<main, processing, failed, retry, now, next_id, steady, history, wvars>>

\* ping raises ConnectionError: is_connected returns False
is_connected_fails ==
    /\ mpc = "sleep"
    /\ faults < MaxFaults
    /\ faults' = faults + 1
    /\ MaintGoto("not_connected")
    /\ UNCHANGED <<queues, now, next_id, max_retries, pipeline, runtime, cli, direct, cleared,
                   history, wvars>>

\* the cycle going on to process_retry_queue although is_connected returned False
cycle_not_skipped ==
    /\ mpc = "not_connected"
    /\ MaintGoto("retry_range")
    /\ UNCHANGED <<queues, now, next_id, steady, history, wvars>>

\* run_maintenance_cycle logs the error and returns; start sleeps and loops
cycle_skipped ==
    /\ mpc = "not_connected"
    /\ MaintSleep
    /\ UNCHANGED <<queues, now, next_id, steady, history, wvars>>

\* ---------------------------------------------------------- stop signal
\* SIGINT reaches the maintenance process: KeyboardInterrupt is raised at
\* the statement the process is at, passes the `except Exception` handlers,
\* and start() logs it and calls stop()
maintenance_interrupted ==
    /\ mpc # "stopped"
    /\ MaintLocals("stopped", <<>>, <<>>, 0, NoMsg, NoMsg)
    /\ UNCHANGED <<queues, now, next_id, steady, history, wvars>>

\* SIGINT reaches worker w: KeyboardInterrupt leaves _process_next_review
\* and the queue operation it is in, and start() logs it and returns
worker_interrupted(w) ==
    /\ wpc[w] # "stopped"
    /\ WorkerLocals(w, "stopped", 0, "null", 0, NoMsg, NoMsg)
    /\ UNCHANGED <<queues, now, next_id, steady, history, mvars>>

\* ------------------------------------------------------- stats and clear
get_queue_stats ==
    [main_queue |-> Len(main),
     processing_queue |-> Len(processing),
     failed_queue |-> Len(failed),
     retry_queue |-> Len(retry),
     processing_keys |-> Cardinality(DOMAIN keys)]

\* no queue operation is between two of its store calls
Quiet == mpc = "sleep" /\ \A w \in Workers : wpc[w] \in {"idle", "process"}

\* clear_all_queues without the DEL of the retry set
clear_keeping_retry ==
    /\ main' = <<>>
    /\ processing' = <<>>
    /\ failed' = <<>>
    /\ keys' = delete_all(keys, DOMAIN keys)
    /\ cleared' = IF Quiet THEN next_id ELSE 0
    /\ UNCHANGED <<retry, now, next_id, max_retries, pipeline, runtime, cli, direct, faults, history, wvars, mvars>>

\* the four DELs, KEYS and the DEL of the keys, with no other store call in
\* between; returns True
clear_all_queues ==
    /\ main' = <<>>
    /\ processing' = <<>>
    /\ failed' = <<>>
    /\ retry' = <<>>
    /\ keys' = delete_all(keys, DOMAIN keys)
    /\ cleared' = IF Quiet THEN next_id ELSE 0
    /\ UNCHANGED <<now, next_id, max_retries, pipeline, runtime, cli, direct, faults, history, wvars, mvars>>

\* -------------------------------------------------------------- pipeline
IN_PROGRESS == "in-progress"
COMPLETED == "completed"
FAILED == "failed"

\* str(e) of the two exceptions process_review_complete catches
AIProcessingFailed == "AI processing failed"
IntegrityError == "IntegrityError"
OperationalError == "OperationalError"

\* what no step of the pipeline changes
queue_side ==
    <<queues, now, next_id, max_retries, faults, cleared, history, wvars, mvars, runtime, cli,
      direct>>

\* the primary key review_id of the three tables: a row with the key exists
key_exists(table, review_id) ==
    \E k \in 1 .. Len(table) : table[k].review_id = review_id

\* session.add, session.commit of a new row
insert(table, row) == Append(table, row)

\* ReviewStatusHelper.update_review_status: the row of review_id gets the
\* status, and the processing_stage, error_message and retry_count that are
\* passed ("null" stands for None: the column keeps its value); no row, no
\* change
update_review_status(table, review_id, status, processing_stage, error_message, retry_count) ==
    [k \in 1 .. Len(table) |->
        IF table[k].review_id = review_id
        THEN [review_id |-> review_id,
              status |-> status,
              processing_stage |-> IF processing_stage = "null"
                                   THEN table[k].processing_stage
                                   ELSE processing_stage,
              error_message |-> IF error_message = "null"
                                THEN table[k].error_message
                                ELSE error_message,
              retry_count |-> IF retry_count = "null"
                              THEN table[k].retry_count
                              ELSE retry_count]
        ELSE table[k]]

\* StructuredReviewHelper.update_structured_review
update_structured_review(table, review_id, overall_sentiment) ==
    [k \in 1 .. Len(table) |->
        IF table[k].review_id = review_id
        THEN [review_id |-> review_id, overall_sentiment |-> overall_sentiment]
        ELSE table[k]]

PGoto(w, pc) ==
    /\ ppc' = [ppc EXCEPT ![w] = pc]
    /\ UNCHANGED <<prid, pinsights, perror, presult>>

\* process_review_complete returns its result dict
PReturn(w, status) ==
    /\ presult' = [presult EXCEPT ![w] = status]
    /\ ppc' = [ppc EXCEPT ![w] = "none"]
    /\ prid' = [prid EXCEPT ![w] = "null"]
    /\ pinsights' = [pinsights EXCEPT ![w] = "null"]
    /\ perror' = [perror EXCEPT ![w] = "null"]

\* the INSERT raised because the key exists: the except clause of
\* process_review_complete is next
Refused(w) ==
    /\ refused' = [refused EXCEPT ![prid[w]] = @ + 1]
    /\ ppc' = [ppc EXCEPT ![w] = "mark_failed"]
    /\ perror' = [perror EXCEPT ![w] = IntegrityError]
    /\ UNCHANGED <<prid, pinsights, presult>>
    /\ UNCHANGED <<db, runs, succeeded>>

\* worker w calls process_review_complete for a review with this review_id
process_review_complete(w, review_id) ==
    /\ ppc[w] = "none"
    /\ runs < MaxRuns
    /\ runs' = runs + 1
    /\ ppc' = [ppc EXCEPT ![w] = "raw_get"]
    /\ prid' = [prid EXCEPT ![w] = review_id]
    /\ presult' = [presult EXCEPT ![w] = "none"]
    /\ UNCHANGED <<pinsights, perror, db, succeeded, refused, queue_side>>

\* _save_raw_review_and_create_status: existing_raw_review
get_raw_review_by_id(w) ==
    /\ ppc[w] = "raw_get"
    /\ PGoto(w, IF key_exists(raw_reviews, prid[w]) THEN "status_get" ELSE "raw_create")
    /\ UNCHANGED <<db, phistory, queue_side>>

create_raw_review(w) ==
    /\ ppc[w] = "raw_create"
    /\ IF key_exists(raw_reviews, prid[w])
       THEN Refused(w)
       ELSE /\ raw_reviews' = insert(raw_reviews, [review_id |-> prid[w]])
            /\ PGoto(w, "status_get")
            /\ UNCHANGED <<review_statuses, structured_reviews, phistory>>
    /\ UNCHANGED queue_side

\* _save_raw_review_and_create_status: existing_status
get_review_status_by_id(w) ==
    /\ ppc[w] = "status_get"
    /\ PGoto(w, IF key_exists(review_statuses, prid[w]) THEN "status_retry" ELSE "status_create")
    /\ UNCHANGED <<db, phistory, queue_side>>

create_review_status(w) ==
    /\ ppc[w] = "status_create"
    /\ IF key_exists(review_statuses, prid[w])
       THEN Refused(w)
       ELSE /\ review_statuses' = insert(review_statuses,
                    [review_id |-> prid[w], status |-> IN_PROGRESS,
                     processing_stage |-> "raw_review_saved",
                     error_message |-> "null", retry_count |-> "0"])
            /\ PGoto(w, "stage_insights")
            /\ UNCHANGED <<raw_reviews, structured_reviews, phistory>>
    /\ UNCHANGED queue_side

\* the status row exists: it is updated to show the retry
update_status_for_retry(w) ==
    /\ ppc[w] = "status_retry"
    /\ review_statuses' =
           update_review_status(review_statuses, prid[w], IN_PROGRESS, "retry_processing",
                                "null", "null")
    /\ PGoto(w, "stage_insights")
    /\ UNCHANGED <<raw_reviews, structured_reviews, phistory, queue_side>>

\* _update_status(review_id, IN_PROGRESS, "processing_insights")
update_status_processing_insights(w) ==
    /\ ppc[w] = "stage_insights"
    /\ review_statuses' =
           update_review_status(review_statuses, prid[w], IN_PROGRESS, "processing_insights",
                                "null", "null")
    /\ PGoto(w, "ai")
    /\ UNCHANGED <<raw_reviews, structured_reviews, phistory, queue_side>>

\* _generate_ai_insights: the analyzer answers with insights, or the call or
\* the parse fails and process_review_complete raises
generate_ai_insights(w) ==
    /\ ppc[w] = "ai"
    /\ \E ai_result \in Sentiments \cup {"error"} :
           IF ai_result = "error"
           THEN /\ ppc' = [ppc EXCEPT ![w] = "mark_failed"]
                /\ perror' = [perror EXCEPT ![w] = AIProcessingFailed]
                /\ UNCHANGED <<prid, pinsights, presult>>
           ELSE /\ ppc' = [ppc EXCEPT ![w] = "stage_saving"]
                /\ pinsights' = [pinsights EXCEPT ![w] = ai_result]
                /\ UNCHANGED <<prid, perror, presult>>
    /\ UNCHANGED <<db, phistory, queue_side>>

\* _update_status(review_id, IN_PROGRESS, "saving_structured_review")
update_status_saving(w) ==
    /\ ppc[w] = "stage_saving"
    /\ review_statuses' =
           update_review_status(review_statuses, prid[w], IN_PROGRESS,
                                "saving_structured_review", "null", "null")
    /\ PGoto(w, "structured_get")
    /\ UNCHANGED <<raw_reviews, structured_reviews, phistory, queue_side>>

\* _save_structured_review: existing_structured_review
get_structured_review_by_id(w) ==
    /\ ppc[w] = "structured_get"
    /\ PGoto(w, IF key_exists(structured_reviews, prid[w])
                THEN "structured_update" ELSE "structured_create")
    /\ UNCHANGED <<db, phistory, queue_side>>

\* _save_structured_review going on without its INSERT
create_structured_review_skipped(w) ==
    /\ ppc[w] = "structured_create"
    /\ PGoto(w, "mark_completed")
    /\ UNCHANGED <<db, phistory, queue_side>>

create_structured_review(w) ==
    /\ ppc[w] = "structured_create"
    /\ IF key_exists(structured_reviews, prid[w])
       THEN Refused(w)
       ELSE /\ structured_reviews' = insert(structured_reviews,
                    [review_id |-> prid[w], overall_sentiment |-> pinsights[w]])
            /\ PGoto(w, "mark_completed")
            /\ UNCHANGED <<raw_reviews, review_statuses, phistory>>
    /\ UNCHANGED queue_side

save_structured_review_update(w) ==
    /\ ppc[w] = "structured_update"
    /\ structured_reviews' =
           update_structured_review(structured_reviews, prid[w], pinsights[w])
    /\ PGoto(w, "mark_completed")
    /\ UNCHANGED <<raw_reviews, review_statuses, phistory, queue_side>>

\* _mark_as_completed; returns status success
mark_as_completed(w) ==
    /\ ppc[w] = "mark_completed"
    /\ review_statuses' = update_review_status(review_statuses, prid[w], COMPLETED,
                                               "null", "null", "null")
    /\ succeeded' = [succeeded EXCEPT ![prid[w]] = @ + 1]
    /\ PReturn(w, "success")
    /\ UNCHANGED <<raw_reviews, structured_reviews, runs, refused, queue_side>>

\* the except clause: _mark_as_failed; returns status failed
mark_as_failed(w) ==
    /\ ppc[w] = "mark_failed"
    /\ review_statuses' = update_review_status(review_statuses, prid[w], FAILED,
                                               "null", perror[w], "null")
    /\ PReturn(w, "failed")
    /\ UNCHANGED <<raw_reviews, structured_reviews, phistory, queue_side>>

\* the steps of a call that has begun
PipelineStep(w) ==
    \/ get_raw_review_by_id(w)
    \/ create_raw_review(w)
    \/ get_review_status_by_id(w)
    \/ create_review_status(w)
    \/ update_status_for_retry(w)
    \/ update_status_processing_insights(w)
    \/ generate_ai_insights(w)
    \/ update_status_saving(w)
    \/ get_structured_review_by_id(w)
    \/ create_structured_review(w)
    \/ save_structured_review_update(w)
    \/ mark_as_completed(w)
    \/ mark_as_failed(w)

NoRunActive == \A w \in Workers : ppc[w] = "none"

\* ------------------------------------------------ retry of a failed review
\* retry_count is a String column holding a decimal numeral
Numerals == <<"0", "1", "2", "3", "4", "5", "6", "7">>
str(n) == Numerals[n + 1]
int(s) == CHOOSE n \in 0 .. Len(Numerals) - 1 : Numerals[n + 1] = s

\* int(status.retry_count) if status.retry_count else 0
current_retries(table, review_id) ==
    LET status == table[CHOOSE k \in 1 .. Len(table) : table[k].review_id = review_id]
    IN IF status.retry_count = "" THEN 0 ELSE int(status.retry_count)

\* the maximum that ReviewWorker.process_failed_reviews passes: self.max_retries
RetryMaxima == 1 .. 2

\* retry_failed_review(review_id, max_retries) by worker w: the status row is
\* read and its retry_count compared with max_retries
retry_failed_review(w, review_id) ==
    /\ ppc[w] = "none"
    /\ runs < MaxRuns
    /\ runs' = runs + 1
    /\ IF key_exists(review_statuses, review_id)
          /\ current_retries(review_statuses, review_id) < inner_retries
       THEN /\ ppc' = [ppc EXCEPT ![w] = "retry_raw_get"]
            /\ prid' = [prid EXCEPT ![w] = review_id]
            /\ presult' = [presult EXCEPT ![w] = "none"]
       ELSE /\ presult' = [presult EXCEPT ![w] = "error"]
            /\ UNCHANGED <<ppc, prid>>
    /\ UNCHANGED <<pinsights, perror, db, succeeded, refused, queue_side>>

\* raw_review_helper.get_raw_review_by_id; 'Raw review not found'
retry_get_raw_review(w) ==
    /\ ppc[w] = "retry_raw_get"
    /\ IF key_exists(raw_reviews, prid[w])
       THEN PGoto(w, "retry_increment")
       ELSE PReturn(w, "error")
    /\ UNCHANGED <<db, phistory, queue_side>>

\* ReviewStatusHelper.increment_retry_count, then process_review_complete
increment_retry_count(w) ==
    /\ ppc[w] = "retry_increment"
    /\ review_statuses' =
           IF key_exists(review_statuses, prid[w])
           THEN update_review_status(review_statuses, prid[w],
                    review_statuses[CHOOSE k \in 1 .. Len(review_statuses) :
                                        review_statuses[k].review_id = prid[w]].status,
                    "null", "null",
                    str(current_retries(review_statuses, prid[w]) + 1))
           ELSE review_statuses
    /\ PGoto(w, "raw_get")
    /\ UNCHANGED <<raw_reviews, structured_reviews, phistory, queue_side>>

\* --------------------------------------------------------- worker runtime
\* review_data.get('review_id')
review_id_of(review_data) == IF review_data = "R1" THEN "rv1" ELSE "rv2"

\* _process_with_retries: the for loop enters its next attempt, the first one
\* after the claim and a later one after a failed attempt
next_attempt(w) ==
    /\ wpc[w] = "process"
    /\ ppc[w] = "none"
    /\ attempt[w] < inner_retries
    /\ presult[w] = IF attempt[w] = 0 THEN "none" ELSE "failed"
    /\ attempt' = [attempt EXCEPT ![w] = @ + 1]
    /\ presult' = [presult EXCEPT ![w] = "calling"]
    /\ UNCHANGED <<queues, now, next_id, max_retries, faults, cleared, history, wvars, mvars, cli, direct,
                   inner_retries, db, ppc, prid, pinsights, perror, phistory>>

\* self.processor.process_review_complete(review_data)
call_processor(w) ==
    /\ wpc[w] = "process"
    /\ presult[w] = "calling"
    /\ process_review_complete(w, review_id_of(wdata[w]))

\* the commit of _mark_as_completed raises after the structured review was
\* saved: the except clause of process_review_complete is next
mark_as_completed_raises(w) ==
    /\ wpc[w] = "process"
    /\ ppc[w] = "mark_completed"
    /\ faults < MaxFaults
    /\ faults' = faults + 1
    /\ ppc' = [ppc EXCEPT ![w] = "mark_failed"]
    /\ perror' = [perror EXCEPT ![w] = OperationalError]
    /\ UNCHANGED <<queues, now, next_id, max_retries, cleared, history, wvars, mvars, cli, direct,
                   runtime, db, prid, pinsights, presult, phistory>>

\* the exception of process_review_complete passing _process_with_retries and
\* being caught by the except clause of _process_next_review, which only logs
process_review_complete_escapes(w) ==
    /\ ppc[w] = "mark_failed"
    /\ faults < MaxFaults
    /\ faults' = faults + 1
    /\ PReturn(w, "failed")
    /\ WorkerReturn(w)
    /\ UNCHANGED <<queues, now, next_id, max_retries, cleared, history, mvars, cli, direct,
                   runtime, db, phistory>>

\* the update of _mark_as_failed raises: process_review_complete raises, and
\* the except clause of _process_with_retries takes the attempt as failed
process_review_complete_raises(w) ==
    /\ ppc[w] = "mark_failed"
    /\ faults < MaxFaults
    /\ faults' = faults + 1
    /\ PReturn(w, "failed")
    /\ UNCHANGED <<queues, now, next_id, max_retries, cleared, history, wvars, mvars, cli, direct,
                   runtime, db, phistory>>

\* nack_message after the first failed attempt, without the remaining attempts
nack_on_first_failure(w) ==
    /\ presult[w] = "failed"
    /\ nack_get(w)

\* result['status'] == 'success': acknowledge_message
ack_on_success(w) ==
    /\ presult[w] = "success"
    /\ ack_delete(w)

\* the last attempt failed: nack_message
nack_on_failure(w) ==
    /\ presult[w] = "failed"
    /\ attempt[w] = inner_retries
    /\ nack_get(w)

\* _process_next_review returned; the loop of start calls it again
next_review(w) ==
    /\ wpc[w] = "idle"
    /\ attempt[w] > 0
    /\ attempt' = [attempt EXCEPT ![w] = 0]
    /\ presult' = [presult EXCEPT ![w] = "none"]
    /\ UNCHANGED <<queues, now, next_id, max_retries, faults, cleared, history, wvars, mvars, cli, direct,
                   inner_retries, db, ppc, prid, pinsights, perror, phistory>>

claim_next(w) ==
    /\ attempt[w] = 0
    /\ dequeue_brpoplpush(w)

\* ReviewWorker._process_next_review
RuntimeWorker(w) ==
    \/ claim_next(w)
    \/ dequeue_setex(w)
    \/ next_attempt(w)
    \/ call_processor(w)
    \/ PipelineStep(w)
    \/ mark_as_completed_raises(w)
    \/ process_review_complete_raises(w)
    \/ ack_on_success(w)
    \/ ack_lrange(w)
    \/ ack_lrem(w)
    \/ nack_on_failure(w)
    \/ nack_delete(w)
    \/ nack_lrange(w)
    \/ nack_lrem(w)
    \/ nack_route(w)
    \/ next_review(w)

\* ------------------------------------------------- clear-database command
REQUIRED_PASSWORD == "YES_DELETE_IT"
InvalidPassword == "Invalid password. Database clearing operation aborted."
DatabaseCleared == "Database cleared successfully."
ErrorClearing == "Error clearing database"

\* values of --password; "null" is the option left out
Passwords == {"YES_DELETE_IT", "yes_delete_it", "WRONG_PASSWORD", "", "null"}

\* password = args.password if args.password else None
password_argument(arg) == IF arg = "" THEN "null" ELSE arg

\* a comparison that ignores case
password_matches_ignoring_case(password) == password \in {"YES_DELETE_IT", "yes_delete_it"}

\* not (password != REQUIRED_PASSWORD)
password_matches(password) == password = REQUIRED_PASSWORD

beside_cli == <<queues, now, next_id, max_retries, faults, cleared, history, wvars, mvars, direct,
                runtime, pvars, phistory>>

\* main: args.command == 'clear-database'
clear_database_command(arg) ==
    /\ cpc = "none"
    /\ cpc' = "called"
    /\ carg' = arg
    /\ cresult' = NoResult
    /\ cexit' = -1
    /\ cscan' = NoScan
    /\ UNCHANGED <<beside_cli, db>>

\* session.query(...).all(): the keys of the rows of a table
review_ids(table) == [k \in 1 .. Len(table) |-> table[k].review_id]

\* session.delete(row); session.commit() when the row is found
delete_row(table, review_id) == SelectSeq(table, LAMBDA r : r.review_id # review_id)

\* deleted_counts[relation] += 1 after the helper's delete returned, and
\* (history) whether a row went away
counted(scan, relation, found) ==
    [rows |-> Tail(scan.rows),
     deleted_counts |-> [scan.deleted_counts EXCEPT ![relation] = @ + 1],
     gone |-> [scan.gone EXCEPT ![relation] = @ + (IF found THEN 1 ELSE 0)]]

\* a raw review that no row refers to, whatever the other tables hold
unreferenced(review_id) == FALSE

\* a structured_reviews or review_statuses row has this raw review as the
\* target of its foreign key (and primary key) review_id
referenced(review_id) ==
    key_exists(structured_reviews, review_id) \/ key_exists(review_statuses, review_id)

\* CLIHelper.clear_database: the password check, and on a match
\* get_all_structured_reviews
clear_database(password) ==
    /\ cpc = "called"
    /\ IF password_matches(password)
       THEN /\ cpc' = "structured_reviews"
            /\ cscan' = [cscan EXCEPT !.rows = review_ids(structured_reviews)]
            /\ UNCHANGED cresult
       ELSE /\ cpc' = "print"
            /\ cresult' = [success |-> FALSE, message |-> InvalidPassword, deleted |-> 0]
            /\ UNCHANGED cscan
    /\ UNCHANGED <<carg, cexit, beside_cli, db>>

\* delete_structured_review for the next row of the list, or, the list done,
\* get_all_review_statuses
delete_structured_reviews ==
    /\ cpc = "structured_reviews"
    /\ IF cscan.rows = <<>>
       THEN /\ cpc' = "review_statuses"
            /\ cscan' = [cscan EXCEPT !.rows = review_ids(review_statuses)]
            /\ UNCHANGED structured_reviews
       ELSE /\ structured_reviews' = delete_row(structured_reviews, Head(cscan.rows))
            /\ cscan' = counted(cscan, "structured_reviews",
                                key_exists(structured_reviews, Head(cscan.rows)))
            /\ UNCHANGED cpc
    /\ UNCHANGED <<carg, cresult, cexit, beside_cli, raw_reviews, review_statuses>>

\* delete_review_status for the next row, or get_all_raw_reviews
delete_review_statuses ==
    /\ cpc = "review_statuses"
    /\ IF cscan.rows = <<>>
       THEN /\ cpc' = "raw_reviews"
            /\ cscan' = [cscan EXCEPT !.rows = review_ids(raw_reviews)]
            /\ UNCHANGED review_statuses
       ELSE /\ review_statuses' = delete_row(review_statuses, Head(cscan.rows))
            /\ cscan' = counted(cscan, "review_statuses",
                                key_exists(review_statuses, Head(cscan.rows)))
            /\ UNCHANGED cpc
    /\ UNCHANGED <<carg, cresult, cexit, beside_cli, raw_reviews, structured_reviews>>

\* delete_raw_review for the next row, or the result dict of the successful
\* call.  The flush of session.delete(raw_review) raises when a row of the
\* other two tables refers to the raw review: the relationships have no
\* delete cascade and the referring column is a primary key; the handler of
\* clear_database then returns the error result
delete_raw_reviews ==
    /\ cpc = "raw_reviews"
    /\ IF cscan.rows = <<>>
       THEN /\ cpc' = "print"
            /\ cresult' = [success |-> TRUE, message |-> DatabaseCleared,
                           deleted |-> cscan.deleted_counts.structured_reviews
                                         + cscan.deleted_counts.review_statuses
                                         + cscan.deleted_counts.raw_reviews]
            /\ UNCHANGED <<cscan, raw_reviews>>
       ELSE IF key_exists(raw_reviews, Head(cscan.rows)) /\ referenced(Head(cscan.rows))
       THEN /\ cpc' = "print"
            /\ cresult' = [success |-> FALSE, message |-> ErrorClearing, deleted |-> 0]
            /\ UNCHANGED <<cscan, raw_reviews>>
       ELSE /\ raw_reviews' = delete_row(raw_reviews, Head(cscan.rows))
            /\ cscan' = counted(cscan, "raw_reviews",
                                key_exists(raw_reviews, Head(cscan.rows)))
            /\ UNCHANGED <<cpc, cresult>>
    /\ UNCHANGED <<carg, cexit, beside_cli, review_statuses, structured_reviews>>

\* print(result['message']); if not result['success']: sys.exit(1)
main_exit ==
    /\ cpc = "print"
    /\ cpc' = "none"
    /\ cexit' = IF cresult.success THEN 0 ELSE 1
    /\ UNCHANGED <<carg, cresult, cscan, beside_cli, db>>

ClearDatabase ==
    \/ \E arg \in Passwords : clear_database_command(arg)
    \/ clear_database(password_argument(carg))
    \/ delete_structured_reviews
    \/ delete_review_statuses
    \/ delete_raw_reviews
    \/ main_exit

\* ------------------------------------------------------- specifications
\* every process runs and none dies
Next ==
    \/ \E review \in Payloads : enqueue_review(review)
    \/ \E w \in Workers : Worker(w)
    \/ Maintenance
    \/ Tick

Spec == Init /\ [][Next]_vars

\* processes may also die between two store calls
CrashNext ==
    \/ Next
    \/ \E w \in Workers : worker_crash(w)
    \/ maintenance_crash

CrashSpec == Init /\ [][CrashNext]_vars

\* the loops of the maintenance task and of every worker keep running, and
\* time passes
FairSpec ==
    /\ Init /\ [][CrashNext]_vars
    /\ WF_vars(Maintenance)
    /\ \A w \in Workers : WF_vars(Worker(w))
    /\ WF_vars(Tick)

\* the same loops kept running, no process dying
RunningSpec ==
    /\ Init /\ [][Next]_vars
    /\ WF_vars(Maintenance)
    /\ \A w \in Workers : WF_vars(Worker(w))
    /\ WF_vars(Tick)

\* one worker running; process_retry_queue may stop between its LPUSH and its
\* ZREM: the task dies there, or the ZREM raises
PromoteFailNext ==
    \/ \E review \in Payloads : enqueue_review(review)
    \/ Worker("w1")
    \/ Maintenance
    \/ Tick
    \/ mpc = "retry_zrem" /\ maintenance_crash
    \/ mpc = "retry_zrem" /\ maintenance_store_error

PromoteFailSpec == Init /\ [][PromoteFailNext]_vars

\* store calls may also raise
FaultNext ==
    \/ Next
    \/ enqueue_review_error
    \/ \E w \in Workers : store_error(w)
    \/ maintenance_store_error

FaultSpec == Init /\ [][FaultNext]_vars

\* callers that enqueue, workers and clear_all_queues; the maintenance task
\* is not running and no visibility timeout runs out
ClearNext ==
    \/ \E review_dict \in Payloads : enqueue_review_dict(review_dict)
    \/ \E w \in Workers : Worker(w)
    \/ clear_all_queues

ClearSpec == Init /\ [][ClearNext]_vars

\* a queue that has been running with a large MESSAGE_MAX_RETRIES: envelope 1
\* has failed n times already and worker w1 has just claimed it again
BackoffInit ==
    \E n \in 0 .. MaxRetryCount, d \in Payloads :
        LET m == Envelope(1, d, n, IF n = 0 THEN NoError ELSE PipelineError) IN
        /\ main = <<>> /\ processing = <<m>> /\ failed = <<>> /\ retry = <<>>
        /\ now = 0
        /\ keys = setex([j \in {} |-> NoMsg], 1, processing_data(m, visibility_timeout, 0))
        /\ next_id = 2
        /\ max_retries \in {n + 1, n + 2}
        /\ sent = [i \in Ids |-> IF i = 1 THEN d ELSE "null"]
        /\ acked = {}
        /\ nacks = [i \in Ids |-> IF i = 1 THEN n ELSE 0]
        /\ crashes = 0
        /\ faults = 0
        /\ cleared = 0
        /\ wpc = [w \in Workers |-> IF w = "w1" THEN "process" ELSE "idle"]
        /\ wid = [w \in Workers |-> IF w = "w1" THEN 1 ELSE 0]
        /\ wdata = [w \in Workers |-> IF w = "w1" THEN d ELSE "null"]
        /\ wexp = [w \in Workers |-> 0]
        /\ wmsg = [w \in Workers |-> NoMsg]
        /\ wfound = [w \in Workers |-> NoMsg]
        /\ mpc = "sleep"
        /\ mready = <<>>
        /\ mkeys = <<>>
        /\ mnow = 0
        /\ mmsg = NoMsg
        /\ mfound = NoMsg
        /\ mmoved = 0
        /\ raw_reviews = <<>> /\ review_statuses = <<>> /\ structured_reviews = <<>>
        /\ ppc = [w \in Workers |-> "none"]
        /\ prid = [w \in Workers |-> "null"]
        /\ pinsights = [w \in Workers |-> "null"]
        /\ perror = [w \in Workers |-> "null"]
        /\ presult = [w \in Workers |-> "none"]
        /\ attempt = [w \in Workers |-> 0]
        /\ inner_retries = WorkerMaxRetries
        /\ runs = 0
        /\ succeeded = [r \in ReviewIds |-> 0]
        /\ refused = [r \in ReviewIds |-> 0]
        /\ cpc = "none"
        /\ carg = "null"
        /\ cresult = NoResult
        /\ cexit = -1
        /\ cscan = NoScan
        /\ succession = NoCall
        /\ snap1 = <<>>
        /\ snap2 = <<>>
        /\ reruns = {}
        /\ elast = NoEnqueue

BackoffNext ==
    \/ \E w \in Workers : Worker(w)
    \/ Maintenance
    \/ Tick

BackoffSpec == BackoffInit /\ [][BackoffNext]_vars

\* the pipeline alone, fed by the default configuration
PipelineInit == Init /\ max_retries = DefaultMaxRetries

\* workers run process_review_complete at the same time, also for the same
\* review_id (the review was enqueued twice, or its envelope is duplicated)
PipelineNext ==
    \/ \E w \in Workers, review_id \in ReviewIds : process_review_complete(w, review_id)
    \/ \E w \in Workers : PipelineStep(w)

PipelineSpec == PipelineInit /\ [][PipelineNext]_vars

\* the calls of process_review_complete come one after another
SequentialNext ==
    \/ \E w \in Workers, review_id \in ReviewIds :
           NoRunActive /\ process_review_complete(w, review_id)
    \/ \E w \in Workers : PipelineStep(w)

SequentialSpec == PipelineInit /\ [][SequentialNext]_vars

\* workers built with 1 to 3 attempts run the pipeline on what they claim
RuntimeInit ==
    /\ StartState
    /\ max_retries = DefaultMaxRetries
    /\ inner_retries \in InnerRetryLimits

RuntimeNext ==
    \/ \E review \in Payloads : enqueue_review(review)
    \/ \E w \in Workers : RuntimeWorker(w)

RuntimeSpec == RuntimeInit /\ [][RuntimeNext]_vars

\* the clear-database command beside the pipeline
DatabaseNext ==
    \/ SequentialNext
    \/ ClearDatabase

DatabaseSpec == PipelineInit /\ [][DatabaseNext]_vars

\* a worker started with one attempt per claim (ReviewWorker(max_retries=1)),
\* the maintenance task running and time passing
DeadLetterInit ==
    /\ StartState
    /\ max_retries = DefaultMaxRetries
    /\ inner_retries = 1

DeadLetterNext ==
    \/ RuntimeNext
    \/ Maintenance
    \/ Tick

DeadLetterSpec == DeadLetterInit /\ [][DeadLetterNext]_vars

\* the queue with one maintenance operation at a time called twice in a row:
\* while the two calls run nothing else does and the clock stands still
SuccessionNext ==
    \/ succession = NoCall /\ Next
    \/ \E op \in MaintenanceOps : first_call(op) \/ second_call(op) \/ second_returned(op)
    \/ /\ succession.op = "process_retry_queue"
       /\ retry_range \/ retry_lpush \/ retry_zrem
    \/ /\ succession.op = "cleanup_expired_messages"
       /\ \/ cleanup_keys
          \/ cleanup_get
          \/ cleanup_delete
          \/ cleanup_lrange
          \/ cleanup_lrem
          \/ cleanup_route

SuccessionSpec == Init /\ [][SuccessionNext]_vars

\* the running loops with a store that may be unreachable when the
\* maintenance cycle begins
PingNext ==
    \/ Next
    \/ is_connected_fails
    \/ cycle_skipped

PingSpec ==
    /\ Init /\ [][PingNext]_vars
    /\ WF_vars(Maintenance \/ cycle_skipped)
    /\ \A w \in Workers : WF_vars(Worker(w))
    /\ WF_vars(Tick)

\* no visibility key holds a corrupt value
AllRecordsSound == \A i \in DOMAIN keys : ~corrupt(keys[i])

\* the queue with a visibility record that may get corrupted; the workers
\* make no store call while a corrupt record is there
CorruptNext ==
    \/ \E review \in Payloads : enqueue_review(review)
    \/ AllRecordsSound /\ \E w \in Workers : Worker(w)
    \/ Tick
    \/ record_corrupted
    \/ cleanup_get_corrupt
    \/ /\ mpc = "cleanup_get" => ~(Head(mkeys) \in DOMAIN keys /\ corrupt(keys[Head(mkeys)]))
       /\ Maintenance

CorruptSpec == Init /\ [][CorruptNext]_vars

\* the running loops, each of which may receive a stop signal
StopNext ==
    \/ Next
    \/ maintenance_interrupted
    \/ \E w \in Workers : worker_interrupted(w)

StopSpec == Init /\ [][StopNext]_vars

\* callers that look at what enqueue_review returns, and the workers
EnqueueNext ==
    \/ \E review \in Payloads, outcome \in LpushOutcomes :
          enqueue_review_reporting(review, outcome)
    \/ \E w \in Workers : Worker(w)

EnqueueSpec == Init /\ [][EnqueueNext]_vars

\* workers that run process_review_complete and, for rows already there,
\* retry_failed_review with their max_retries
RetryInit ==
    /\ StartState
    /\ max_retries = DefaultMaxRetries
    /\ inner_retries \in RetryMaxima

RetryNext ==
    \/ \E w \in Workers, review_id \in ReviewIds : process_review_complete(w, review_id)
    \/ \E w \in Workers, review_id \in ReviewIds : retry_failed_review(w, review_id)
    \/ \E w \in Workers : retry_get_raw_review(w) \/ increment_retry_count(w)
    \/ \E w \in Workers : PipelineStep(w)

RetrySpec == RetryInit /\ [][RetryNext]_vars

\* the envelope that BRPOPLPUSH would take is a first delivery
first_delivery == main # <<>> /\ main[Len(main)].retry_count = 0

\* the runs of Spec in which w1 claims only first deliveries and w2 only
\* re-queued envelopes, so that of two claims of one envelope held at the
\* same time the one of w2 is the newer
LateNext ==
    \/ \E review \in Payloads : enqueue_review(review)
    \/ (wpc["w1"] = "idle" => first_delivery) /\ Worker("w1")
    \/ (wpc["w2"] = "idle" => ~first_delivery) /\ Worker("w2")
    \/ Maintenance
    \/ Tick

LateSpec == Init /\ [][LateNext]_vars

\* ---------------------------------------------------------- observations
Enqueued == 1 .. (next_id - 1)

Count(list, i) == Cardinality({k \in 1 .. Len(list) : list[k].id = i})
CountRetry(zset, i) == Cardinality({k \in 1 .. Len(zset) : zset[k].member.id = i})

Copies(i) ==
    Count(main, i) + Count(processing, i) + CountRetry(retry, i) + Count(failed, i)

\* process_retry_queue has pushed envelope i to main and not yet removed it from retry
InPromoteWindow(i) == mpc = "retry_zrem" /\ Head(mready).member.id = i

\* cleanup_expired_messages is re-queueing the timed-out envelope i
InReapWindow(i) ==
    /\ mpc \in {"cleanup_delete", "cleanup_lrange", "cleanup_lrem", "cleanup_route"}
    /\ mmsg.id = i

\* a visibility record of envelope i exists and has not expired
LiveClaim(i) == i \in DOMAIN keys /\ keys[i].expires_at >= now

\* C1: every envelope that was enqueued and not acked is in main, processing,
\* retry or failed, in every state between two store operations
NoLoss == \A i \in Enqueued : i \notin acked => Copies(i) >= 1

\* C2: an envelope id occurs at most once across main, processing, retry and
\* failed, except inside the promote window and the reap window
NoDuplication ==
    \A i \in Enqueued : Copies(i) <= 1 \/ InPromoteWindow(i) \/ InReapWindow(i)

\* C3: no Claim returns an envelope whose id has a visibility record that exists
\* and has not expired
NoDoubleDelivery ==
    [][\A w \in Workers :
          (wpc[w] = "idle" /\ wpc'[w] = "setex") => ~LiveClaim(wmsg'[w].id)]_vars

\* C7: once an envelope is in failed, no step puts it, or a copy of it, into
\* main, retry or processing, and none takes it out of failed
FailedIsTerminal ==
    [][\A i \in Enqueued :
          Count(failed, i) >= 1 =>
              /\ Count(main', i) <= Count(main, i)
              /\ Count(processing', i) <= Count(processing, i)
              /\ CountRetry(retry', i) <= CountRetry(retry, i)
              /\ Count(failed', i) >= Count(failed, i)]_vars

\* C8: every envelope in failed has retry_count >= MAX_RETRIES
FailedExhausted ==
    \A k \in 1 .. Len(failed) : failed[k].retry_count >= max_retries

\* C8 witness: failed holds an envelope routed by cleanup_expired_messages and
\* one routed by nack_message
FailedByBothRoutes ==
    /\ \E k \in 1 .. Len(failed) : failed[k].last_error = TimeoutError
    /\ \E k \in 1 .. Len(failed) : failed[k].last_error = PipelineError

\* the retry_count values held for envelope i: in the four queues, in its
\* visibility record and in the message an operation is carrying
RetryCounts(i) ==
    {main[k].retry_count : k \in {j \in 1 .. Len(main) : main[j].id = i}}
    \cup {processing[k].retry_count :
              k \in {j \in 1 .. Len(processing) : processing[j].id = i}}
    \cup {failed[k].retry_count : k \in {j \in 1 .. Len(failed) : failed[j].id = i}}
    \cup {retry[k].member.retry_count :
              k \in {j \in 1 .. Len(retry) : retry[j].member.id = i}}
    \cup {keys[j].message.retry_count : j \in DOMAIN keys \cap {i}}
    \cup {wmsg[w].retry_count : w \in {v \in Workers : wmsg[v].id = i}}
    \cup {mmsg.retry_count : j \in {i} \cap {mmsg.id}}

Least(S) == CHOOSE x \in S : \A y \in S : x <= y

NackReads(w) == wpc[w] = "process" /\ wpc'[w] = "nack_delete"
ReapReads == mpc = "cleanup_get" /\ mpc' = "cleanup_delete"
ClaimMoves(w) == wpc[w] = "idle" /\ wpc'[w] = "setex"
PromotePushes == mpc = "retry_lpush" /\ mpc' = "retry_zrem"

\* what one step may do to the retry_count values held for envelope i: the
\* least of them does not go down; a new value appears only when nack_message
\* or cleanup_expired_messages reads the visibility record, and it is that
\* record's value plus one; a claim and a promotion bring no new value
RetryCountSteps(i) ==
    LET old == RetryCounts(i)
        new == RetryCounts(i)'
    IN  /\ (old # {} /\ new # {}) => Least(new) >= Least(old)
        /\ \A n \in new \ old :
              IF old = {} THEN n = 0
              ELSE /\ ReapReads \/ \E w \in Workers : NackReads(w)
                   /\ i \in DOMAIN keys
                   /\ n = keys[i].message.retry_count + 1
        /\ \A w \in Workers :
              NackReads(w) /\ wid[w] = i =>
                  wmsg'[w].retry_count = keys[i].message.retry_count + 1
        /\ (ReapReads /\ Head(mkeys) = i) =>
              mmsg'.retry_count = keys[i].message.retry_count + 1
        /\ (PromotePushes \/ \E w \in Workers : ClaimMoves(w)) => new = old

\* the retry_count in the visibility record of envelope i is not lowered by the
\* step that overwrites the record
RecordNotLowered(i) ==
    (i \in DOMAIN keys /\ i \in DOMAIN keys') =>
        keys'[i].message.retry_count >= keys[i].message.retry_count

\* C9: the retry_count stored with an envelope id never decreases in any step of
\* any operation; only nack_message and cleanup_expired_messages change it, each
\* by exactly +1, and process_retry_queue and dequeue_for_processing carry it
\* over unchanged
MonotoneRetry ==
    [][\A i \in Ids : RetryCountSteps(i) /\ RecordNotLowered(i)]_vars

\* the step rules alone, without the visibility record's own history
RetryStepRules == [][\A i \in Ids : RetryCountSteps(i)]_vars

NackReturns(w) ==
    /\ wpc[w] = "nack_route" /\ wpc'[w] = "idle"
    /\ nacks'[wid[w]] = nacks[wid[w]] + 1

ExpiredClaim(i) ==
    /\ Count(processing, i) >= 1
    /\ i \in DOMAIN keys
    /\ now > keys[i].expires_at

\* envelope i is in the processing list, its visibility key does not exist and
\* no worker is inside a call that is about to write the key or to remove the
\* entry
Orphan(i) ==
    /\ Count(processing, i) >= 1
    /\ i \notin DOMAIN keys
    /\ \A w \in Workers : wmsg[w].id # i /\ wid[w] # i

\* C4: an envelope that has been in the processing list for longer than the
\* visibility timeout is eventually removed from it
ExpiredClaimIsReaped ==
    \A i \in Ids : [](ExpiredClaim(i) => <>(Count(processing, i) = 0))

\* C5: an envelope in the processing list whose visibility key does not exist
\* is eventually removed from the processing list
OrphanIsReaped ==
    \A i \in Ids : [](Orphan(i) => <>(Count(processing, i) = 0))

\* get_queue_stats reports zero for all five counts
StatsAllZero ==
    get_queue_stats = [main_queue |-> 0, processing_queue |-> 0, failed_queue |-> 0,
                       retry_queue |-> 0, processing_keys |-> 0]

\* every envelope was enqueued, claimed and acked, none was nacked, and every
\* call has returned
EnqueuedClaimedAcked ==
    /\ Enqueued # {}
    /\ \A i \in Enqueued : i \in acked /\ nacks[i] = 0
    /\ \A w \in Workers : wpc[w] = "idle"

\* C11: from an empty system, Enqueue then Claim then Ack leaves main,
\* processing, retry, failed and the visibility keys empty: get_queue_stats
\* reports zero five times
AckLeavesEmpty == EnqueuedClaimedAcked => StatsAllZero

\* C11 witness: one envelope went through enqueue, claim and ack, clear was
\* never called alone, and the stats are zero
OneEnvelopeAcked ==
    /\ next_id = 2 /\ acked = {1} /\ cleared = 0
    /\ EnqueuedClaimedAcked
    /\ StatsAllZero

\* C12: after clear_all_queues has run with no queue operation in progress,
\* main, processing, failed and retry are empty and no visibility key exists
\* (nothing that was enqueued before it is anywhere, and the stats are zero
\* until the next enqueue); an envelope enqueued after it is claimed with its
\* payload, and once acked it is gone
ClearLeavesEmpty ==
    cleared > 0 =>
        /\ \A i \in Enqueued : i < cleared => Copies(i) = 0 /\ i \notin DOMAIN keys
        /\ next_id = cleared => StatsAllZero
        /\ \A w \in Workers :
              (wid[w] # 0 /\ wid[w] >= cleared) => wdata[w] = sent[wid[w]]
        /\ \A i \in Enqueued :
              (i >= cleared /\ i \in acked /\ nacks[i] = 0 /\ \A w \in Workers : wid[w] # i)
                  => Copies(i) = 0 /\ i \notin DOMAIN keys

\* C12 witness: envelope 1 was enqueued and never acked, clear_all_queues ran
\* alone, then envelope 2 was enqueued, claimed and acked, and the stats are zero
RoundTripAfterClear ==
    /\ cleared = 2 /\ next_id = 3 /\ acked = {2}
    /\ \A w \in Workers : wpc[w] = "idle"
    /\ StatsAllZero

\* worker w calls nack_message (its first store call, the GET)
NackCalled(w) == wpc[w] = "process" /\ wpc'[w] \notin {"process", "ack_lrange"}

\* C14: nack_message for an id whose visibility record does not exist returns
\* False (the call ends there and is not counted among the nacks that returned
\* True) and leaves main, processing, retry, failed and the keys unchanged
NackWithoutRecord ==
    [][\A w \in Workers :
          (NackCalled(w) /\ wid[w] \notin DOMAIN keys) =>
              /\ wpc'[w] = "idle"
              /\ nacks' = nacks
              /\ queues' = queues]_vars

\* C14 witness: every call has returned and an envelope that was neither acked
\* nor nacked is still in the processing list, its visibility record gone: its
\* nack_message found no record
NackFoundNoRecord ==
    /\ \A w \in Workers : wpc[w] = "idle"
    /\ \E i \in Enqueued :
           /\ Count(processing, i) >= 1
           /\ i \notin DOMAIN keys
           /\ i \notin acked
           /\ nacks[i] = 0

\* a store call raised in this step
FaultStep == faults' = faults + 1

\* the envelope worker w is handling in the queue operation it is in
Handled(w) ==
    IF wpc[w] \in {"setex", "nack_delete", "nack_lrange", "nack_lrem", "nack_route"}
    THEN wmsg[w].id
    ELSE IF wpc[w] \in {"process", "ack_lrange", "ack_lrem"} THEN wid[w] ELSE 0

\* the envelope the maintenance task is handling
MaintHandled ==
    IF mpc \in {"retry_lpush", "retry_zrem"} THEN Head(mready).member.id
    ELSE IF mpc \in {"cleanup_delete", "cleanup_lrange", "cleanup_lrem", "cleanup_route"}
    THEN mmsg.id ELSE 0

NackIncrements(w) ==
    /\ wpc[w] = "process" /\ wpc'[w] = "nack_delete"
    /\ wid[w] \in DOMAIN keys

\* C15: a Nack that raises retry_count to n < MAX_RETRIES adds the envelope to
\* retry with due-time now + min(60 * 2^n, 3600), n being the count after the
\* increment, and the delay is never more than 3600 seconds
BackoffDueTime ==
    [][\A w \in Workers :
          /\ NackIncrements(w) =>
                wmsg'[w].retry_count = keys[wid[w]].message.retry_count + 1
          /\ (NackReturns(w) /\ wmsg[w].retry_count < max_retries) =>
                LET n == wmsg[w].retry_count
                    due == now + Min(60 * (2 ^ n), 3600) IN
                \E k \in 1 .. Len(retry') :
                    /\ retry'[k] = [member |-> wmsg[w], score |-> due]
                    /\ retry'[k].score - now <= 3600
                    /\ Len(retry') = Len(retry) + 1
                    /\ failed' = failed]_vars

\* an envelope raised to a count at which 60 * 2^n is over the ceiling waits
\* in retry, due 3600 seconds after its Nack
BackoffAtCeiling ==
    \E k \in 1 .. Len(retry) :
        /\ 60 * (2 ^ retry[k].member.retry_count) > 3600
        /\ retry[k].score = 3600 + now
        /\ nacks[retry[k].member.id] = retry[k].member.retry_count
\* worker w ends the k-th Nack of an envelope that no timeout was counted for,
\* the queue running with the default MESSAGE_MAX_RETRIES
KthNackReturns(w, k) ==
    /\ NackReturns(w)
    /\ max_retries = DefaultMaxRetries
    /\ nacks'[wid[w]] = k
    /\ wmsg[w].retry_count = k

DueAfter(w, delay) ==
    \E j \in 1 .. Len(retry') :
        /\ retry'[j] = [member |-> wmsg[w], score |-> now + delay]
        /\ Len(retry') = Len(retry) + 1

\* C16 as stated: with MAX_RETRIES = 3 the first Nack of a fresh envelope
\* schedules it 60 s ahead, the nacks of an always-failing envelope use the
\* delays 60, 120, 240 s, and the envelope is in failed after the third
NackDelays60_120_240 ==
    [][\A w \in Workers :
          /\ KthNackReturns(w, 1) => DueAfter(w, 60)
          /\ KthNackReturns(w, 2) => DueAfter(w, 120)
          /\ KthNackReturns(w, 3) =>
                (DueAfter(w, 240) \/ Count(failed', wmsg[w].id) >= 1)]_vars

\* C16 amended: with MAX_RETRIES = 3 the first Nack schedules the envelope
\* 120 s ahead, the second 240 s ahead, and the third puts it in failed and
\* schedules nothing
NackDelays120_240_failed ==
    [][\A w \in Workers :
          /\ KthNackReturns(w, 1) => DueAfter(w, 120) /\ failed' = failed
          /\ KthNackReturns(w, 2) => DueAfter(w, 240) /\ failed' = failed
          /\ KthNackReturns(w, 3) =>
                /\ failed' = lpush(failed, wmsg[w])
                /\ retry' = retry]_vars

\* the second Nack has just scheduled the envelope 240 s ahead, after the
\* first one had made it wait 120 s
SecondNackWaits240 ==
    /\ max_retries = DefaultMaxRetries
    /\ \E j \in 1 .. Len(retry) :
          /\ retry[j].member.retry_count = 2
          /\ nacks[retry[j].member.id] = 2
          /\ retry[j].score = now + 240
          /\ now >= 120
\* the steps of process_retry_queue
PromoteReads == mpc = "retry_range" /\ mpc' # "retry_range"
PromoteRemoves == mpc = "retry_zrem" /\ mpc' # "retry_zrem"

InSeq(seq, x) == \E k \in 1 .. Len(seq) : seq[k] = x

\* C17: process_retry_queue pushes every retry entry with due-time <= now, a
\* due-time of exactly now included, to main and removes it from retry, leaves
\* the entries with due-time > now in retry, and returns the number it moved
PromoteMovesDue ==
    [][/\ PromoteReads =>
             /\ mmoved = 0 /\ mmoved' = 0
             /\ retry' = retry /\ main' = main
             /\ \A k \in 1 .. Len(retry) :
                    retry[k].score <= now <=> InSeq(mready', retry[k])
             /\ \A j \in 1 .. Len(mready') : InSeq(retry, mready'[j])
             /\ mpc' = IF mready' = <<>> THEN "cleanup_keys" ELSE "retry_lpush"
       /\ PromotePushes =>
             /\ main' = <<Head(mready).member>> \o main
             /\ retry' = retry
             /\ mmoved' = mmoved /\ mready' = mready
       /\ PromoteRemoves =>
             /\ ~InSeq(retry', Head(mready))
             /\ \A k \in 1 .. Len(retry) :
                    retry[k] # Head(mready) => InSeq(retry', retry[k])
             /\ Len(retry') = Len(retry) - 1
             /\ main' = main
             /\ mmoved' = mmoved + 1
             /\ mready' = Tail(mready)
             /\ mpc' = IF mready' = <<>> THEN "cleanup_keys" ELSE "retry_lpush"]_vars

\* an entry that is due exactly now has been pushed to main and is about to
\* be removed from retry
PromotedWhenDueNow ==
    /\ mpc = "retry_zrem"
    /\ Head(mready).score = now
    /\ main # <<>> /\ Head(main) = Head(mready).member
    /\ InSeq(retry, Head(mready))
\* the steps of cleanup_expired_messages for one expired record
ReapDeletes == mpc = "cleanup_delete" /\ mpc' = "cleanup_lrange"
ReapRemoves == mpc = "cleanup_lrem" /\ mpc' = "cleanup_route"
ReapRoutes == mpc = "cleanup_route" /\ mpc' # "cleanup_route" /\ crashes' = crashes

\* C18: for a visibility record that has expired, cleanup_expired_messages
\* builds the envelope with retry_count one higher and last_error
\* "Processing timeout", deletes the key, removes the processing-list entry,
\* and pushes the envelope to main when the new retry_count < MAX_RETRIES and
\* to failed otherwise; a fresh envelope (MAX_RETRIES > 1) re-enters main with
\* retry_count = 1
ReapTimesOut ==
    [][/\ (mpc = "cleanup_get" /\ mpc' # "cleanup_get" /\ crashes' = crashes) =>
             LET id == Head(mkeys) IN
             IF id \in DOMAIN keys /\ mnow > keys[id].expires_at
             THEN /\ ReapReads
                  /\ mmsg'.id = id
                  /\ mmsg'.review_data = keys[id].message.review_data
                  /\ mmsg'.retry_count = keys[id].message.retry_count + 1
                  /\ mmsg'.last_error = "Processing timeout"
             ELSE ~ReapReads /\ UNCHANGED queues
       /\ ReapDeletes =>
             /\ mmsg.id \notin DOMAIN keys'
             /\ \A j \in DOMAIN keys : j # mmsg.id => j \in DOMAIN keys'
       /\ ReapRemoves =>
             IF InSeq(processing, mfound)
             THEN /\ Count(processing', mmsg.id) = Count(processing, mmsg.id) - 1
                  /\ Len(processing') = Len(processing) - 1
             ELSE processing' = processing
       /\ ReapRoutes =>
             /\ mmsg.retry_count < max_retries =>
                    main' = <<mmsg>> \o main /\ failed' = failed
             /\ mmsg.retry_count >= max_retries =>
                    failed' = <<mmsg>> \o failed /\ main' = main
             /\ (mmsg.retry_count = 1 /\ max_retries > 1) =>
                    Head(main').retry_count = 1 /\ Head(main').id = mmsg.id
             /\ UNCHANGED <<processing, retry, keys>>]_vars

\* a fresh envelope, claimed and never acked or nacked, is back in main with
\* retry_count 1 and the timeout as its last error, its key and its
\* processing-list entry gone
ReapedFreshIntoMain ==
    \E k \in 1 .. Len(main) :
        /\ main[k].retry_count = 1
        /\ main[k].last_error = TimeoutError
        /\ main[k].id \notin DOMAIN keys
        /\ Count(processing, main[k].id) = 0
        /\ nacks[main[k].id] = 0
        /\ main[k].id \notin acked
\* rows of the table with this review_id
Rows(table, review_id) ==
    Cardinality({k \in 1 .. Len(table) : table[k].review_id = review_id})

\* C19: for every review_id, once process_review_complete has run to
\* completion, however many calls came one after another and however many of
\* them failed, raw_reviews holds exactly one row for it and
\* structured_reviews holds exactly one row for it
PipelineIdempotent ==
    \A review_id \in ReviewIds :
        succeeded[review_id] >= 1 =>
            /\ Rows(raw_reviews, review_id) = 1
            /\ Rows(structured_reviews, review_id) = 1

\* three calls for one review_id are over: two returned success, one failed
SucceededTwiceFailedOnce ==
    /\ NoRunActive
    /\ runs = 3
    /\ \E review_id \in ReviewIds :
          /\ succeeded[review_id] = 2
          /\ \A other \in ReviewIds \ {review_id} : Rows(raw_reviews, other) = 0

\* C20: no call of process_review_complete fails because a raw_reviews,
\* review_statuses or structured_reviews row of its review_id already exists,
\* also when two workers run it for the same review_id at the same time
NoRunRefused == \A review_id \in ReviewIds : refused[review_id] = 0
\* the review_statuses row of review_id has this status
StatusIs(table, review_id, status) ==
    \E k \in 1 .. Len(table) :
        table[k].review_id = review_id /\ table[k].status = status

ReturnsSuccess(w) == ppc[w] = "mark_completed" /\ ppc'[w] = "none"
ReturnsFailed(w) == ppc[w] = "mark_failed" /\ ppc'[w] = "none"

\* C21: every call of process_review_complete, the first and the repeated
\* ones, has the status row at IN_PROGRESS when it calls the analyzer, leaves
\* it at COMPLETED when it returns success, and leaves it at FAILED with the
\* error message recorded when it returns failed
StatusFollowsResult ==
    [][\A w \in Workers :
          /\ (ppc[w] = "stage_insights" /\ ppc'[w] = "ai") =>
                StatusIs(review_statuses', prid[w], IN_PROGRESS)
          /\ ReturnsSuccess(w) =>
                StatusIs(review_statuses', prid[w], COMPLETED)
          /\ ReturnsFailed(w) =>
                \E k \in 1 .. Len(review_statuses') :
                    /\ review_statuses'[k].review_id = prid[w]
                    /\ review_statuses'[k].status = FAILED
                    /\ review_statuses'[k].error_message = perror[w]
                    /\ review_statuses'[k].error_message # "null"]_vars
\* C22: when an always-failing review has been nacked three times with
\* MAX_RETRIES = 3 and is in failed, failed has length 1 and the review's
\* status row is FAILED with retry_count "3" and an error message (no store
\* or database call has raised)
DeadLetterStatus ==
    \A i \in Ids :
        (max_retries = 3 /\ nacks[i] = 3 /\ Count(failed, i) >= 1 /\ faults = 0) =>
            /\ Len(failed) = 1
            /\ \E k \in 1 .. Len(review_statuses) :
                  /\ review_statuses[k].review_id = review_id_of(sent[i])
                  /\ review_statuses[k].status = FAILED
                  /\ review_statuses[k].retry_count = "3"
                  /\ review_statuses[k].error_message # "null"
AckCalled(w) == wpc[w] = "process" /\ wpc'[w] = "ack_lrange"
NackBegins(w) == wpc[w] = "process" /\ wpc'[w] = "nack_delete"

\* a worker is back in its loop after a claim whose result was success and an
\* envelope is acked and never nacked, or whose result was failed and an
\* envelope is nacked once and not acked
SettledOnce(w) ==
    \E i \in Enqueued :
        \/ presult[w] = "success" /\ i \in acked /\ nacks[i] = 0
        \/ presult[w] = "failed" /\ i \notin acked /\ nacks[i] = 1

\* C23: a worker that holds a claimed envelope leaves _process_with_retries
\* only into acknowledge_message (result success) or into nack_message (result
\* failed), for the id it claimed, also when the pipeline raised; when it is
\* back in its loop exactly one of the two was called
WorkerSettlesEachClaim ==
    /\ [][\A w \in Workers :
             (wpc[w] = "process" /\ wpc'[w] # "process") =>
                 /\ wid'[w] = wid[w]
                 /\ \/ AckCalled(w) /\ presult[w] = "success" /\ acked' = acked \cup {wid[w]}
                    \/ NackBegins(w) /\ presult[w] = "failed" /\ acked' = acked
                                     /\ wmsg'[w].id = wid[w]]_vars
    /\ [](\A w \in Workers : (wpc[w] = "idle" /\ attempt[w] > 0) => SettledOnce(w))

\* C23 witness: the pipeline raised on the only attempt, and the worker is
\* back in its loop with the envelope nacked once and in the retry set
NackedAfterPipelineRaised ==
    \E w \in Workers :
        /\ wpc[w] = "idle" /\ attempt[w] = 1 /\ presult[w] = "failed"
        /\ faults = 1
        /\ \E i \in Enqueued : nacks[i] = 1 /\ CountRetry(retry, i) = 1 /\ i \notin acked
PipelineCalled(w) == ppc[w] = "none" /\ ppc'[w] # "none"

\* every copy of envelope i, in a list, in the retry set or in a visibility
\* record, has retry_count 0
RetryCountZero(i) == RetryCounts(i) \subseteq {0}

\* C24: per claim the worker calls process_review_complete at most
\* self.max_retries times, calls it again only after a failed attempt, acks as
\* soon as an attempt succeeded and nacks only when the last of the configured
\* attempts has failed; an acked envelope was never nacked and no copy of it
\* carries a retry_count above 0
BoundedInnerRetries ==
    /\ [][\A w \in Workers :
             /\ PipelineCalled(w) =>
                    /\ attempt[w] \in 1 .. inner_retries
                    /\ runs' = runs + 1
             /\ attempt'[w] > attempt[w] =>
                    /\ attempt'[w] = attempt[w] + 1
                    /\ presult[w] = (IF attempt[w] = 0 THEN "none" ELSE "failed")
             /\ (wpc[w] = "process" /\ presult[w] = "success") =>
                    /\ attempt'[w] = attempt[w] /\ ppc'[w] = "none"
                    /\ wpc'[w] = "process" \/ AckCalled(w)
             /\ NackBegins(w) => (attempt[w] = inner_retries /\ presult[w] = "failed")]_vars
    /\ [](\A w \in Workers : attempt[w] <= inner_retries)
    /\ [](\A i \in acked : nacks[i] = 0 /\ RetryCountZero(i))

\* C24 witness: three attempts configured, the first two failed and the third
\* succeeded; the envelope is acked, was never nacked, and is in no queue
ThirdAttemptSucceeds ==
    \E w \in Workers : \E i \in Enqueued :
        /\ inner_retries = 3 /\ attempt[w] = 3 /\ runs = 3
        /\ presult[w] = "success" /\ wpc[w] = "idle"
        /\ succeeded[review_id_of(sent[i])] = 1
        /\ i \in acked /\ nacks[i] = 0
        /\ Copies(i) = 0 /\ failed = <<>>
        /\ StatusIs(review_statuses, review_id_of(sent[i]), COMPLETED)
\* C25: clear_database with a --password other than exactly YES_DELETE_IT, an
\* empty one and a missing one included, returns the fixed failure message,
\* deletes no row of the three tables, never reaches the delete loops, and
\* the command exits with status 1
WrongPasswordAborts ==
    /\ [][carg # REQUIRED_PASSWORD =>
             /\ (cpc = "called" /\ cpc' # "called") =>
                    /\ cpc' = "print"
                    /\ cresult' = [success |-> FALSE, message |-> InvalidPassword, deleted |-> 0]
                    /\ db' = db
             /\ (cpc = "print" /\ cpc' # "print") =>
                    /\ cpc' = "none"
                    /\ cexit' = 1
                    /\ db' = db]_vars
    /\ [](carg # REQUIRED_PASSWORD => cpc \in {"none", "called", "print"})

\* C25 witness: the command has ended with status 1 and the failure message
\* for an empty --password while the three tables hold rows
EmptyPasswordRefused ==
    /\ cpc = "none" /\ cexit = 1 /\ carg = ""
    /\ cresult.message = InvalidPassword /\ ~cresult.success
    /\ Len(raw_reviews) = 2 /\ Len(review_statuses) = 2 /\ Len(structured_reviews) >= 1
\* envelope i is acked and in no queue, or it is in failed
Terminal(i) ==
    \/ i \in acked /\ Copies(i) = 0
    \/ Count(failed, i) >= 1

\* envelope i waits in the retry set for a due time the clock never shows
DueBeyondClock(i) ==
    \E k \in 1 .. Len(retry) : retry[k].member.id = i /\ retry[k].score > MaxTime

EnqueueAddsOne ==
    [][next_id' # next_id =>
          \E e \in {main'[1]} :
              /\ main' = <<e>> \o main
              /\ e.retry_count = 0
              /\ e.review_data \in Payloads
              /\ sent[e.id] = "null" /\ sent'[e.id] = e.review_data
              /\ Copies(e.id) = 0 /\ e.id \notin DOMAIN keys
              /\ \A w \in Workers : wid[w] # e.id /\ wmsg[w].id # e.id
              /\ <<processing, failed, retry, keys>>' = <<processing, failed, retry, keys>>]_vars

\* C27 witness: the same review enqueued twice is in main as two envelopes
\* with different ids, both with retry_count 0
SameReviewTwice ==
    /\ Len(main) = 2
    /\ main[1].review_data = main[2].review_data
    /\ main[1].id # main[2].id
    /\ main[1].retry_count = 0 /\ main[2].retry_count = 0
    /\ processing = <<>> /\ retry = <<>> /\ failed = <<>>
Claims(w) == wpc[w] = "idle" /\ wpc'[w] = "setex"

\* C28: while main is fed by enqueue alone (no nack, timeout or promotion
\* puts an envelope back), main holds the envelopes newest first, and a claim
\* takes the one enqueued first: every envelope enqueued before the claimed
\* one has left main already, every one left in main was enqueued after it
ClaimedInEnqueueOrder ==
    /\ [][\A w \in Workers :
             Claims(w) =>
                 /\ wmsg'[w] = main[Len(main)]
                 /\ main' = SubSeq(main, 1, Len(main) - 1)
                 /\ \A k \in 1 .. Len(main') : main'[k].id > wmsg'[w].id
                 /\ \A i \in Enqueued : i < wmsg'[w].id => Count(main, i) = 0]_vars
    /\ [](\A k \in 1 .. Len(main) - 1 : main[k].id > main[k + 1].id)

\* C28 witness: two envelopes were enqueued, one worker has claimed and
\* acked the first and now claims the second, the other worker idle throughout
SecondClaimedAfterFirst ==
    /\ wpc["w1"] = "setex" /\ wmsg["w1"].id = 2
    /\ acked = {1} /\ main = <<>> /\ Len(processing) = 1
    /\ wpc["w2"] = "idle" /\ \A i \in Ids : nacks[i] = 0
    /\ cleared = 0
\* C29: in a run without clear_all_queues, whenever the visibility key of an
\* id exists the processing list holds an envelope with that id
KeyHasEntry == \A i \in DOMAIN keys : Count(processing, i) >= 1
\* process_retry_queue stops between its LPUSH and its ZREM: the task dies or
\* the ZREM raises
PromoteFails ==
    /\ mpc = "retry_zrem" /\ mpc' # "retry_zrem"
    /\ crashes' # crashes \/ faults' # faults

\* C30 as stated: when process_retry_queue stops between the LPUSH and the
\* ZREM of an envelope, the envelope is in main and in retry
PromoteFailureDuplicates ==
    [][PromoteFails =>
          \E e \in {Head(mready).member} :
              /\ Count(main', e.id) >= 1
              /\ CountRetry(retry', e.id) >= 1]_vars
\* C30 amended: the LPUSH puts the envelope at the head of main and leaves
\* its entry in retry; until the ZREM the entry stays in retry and the copy
\* leaves main only by a worker's claim; a crash or store error before the
\* ZREM changes neither main nor retry. So after the failure the envelope is
\* in retry and, unless a worker claimed the copy meanwhile, in main
PromoteFailureKeepsRetry ==
    [][/\ (mpc = "retry_lpush" /\ mpc' = "retry_zrem") =>
             /\ main' = <<Head(mready).member>> \o main
             /\ InSeq(retry', Head(mready))
       /\ (mpc = "retry_zrem" /\ mpc' = "retry_zrem") =>
             /\ InSeq(retry', Head(mready))
             /\ \E i \in {Head(mready).member.id} :
                   Count(main', i) < Count(main, i) =>
                       \E w \in Workers : Claims(w) /\ wmsg'[w].id = i
       /\ PromoteFails =>
             /\ main' = main /\ retry' = retry
             /\ InSeq(retry', Head(mready))]_vars

\* C30 witness: process_retry_queue has stopped between the LPUSH and the
\* ZREM and the same envelope is in main and in retry
PromotedAndStillInRetry ==
    /\ mpc \notin {"retry_lpush", "retry_zrem"}
    /\ crashes + faults >= 1
    /\ \E k \in 1 .. Len(retry) :
          /\ InSeq(main, retry[k].member)
          /\ retry[k].score <= now

\* C31: when process_retry_queue or cleanup_expired_messages is called a
\* second time right after its first call returned, the second call changes
\* none of main, processing, failed, retry and the visibility keys, and it
\* returns 0: it moves no message (moved_count stays 0) and takes the
\* expired branch, the only place cleaned_count is incremented, for no key
SecondCallIdle ==
    succession.call = 2 =>
        /\ queues = snap2
        /\ mmoved = 0
        /\ mready = <<>>
        /\ mpc \in (IF succession.op = "process_retry_queue"
                    THEN {"retry_range", "cleanup_keys"}
                    ELSE {"cleanup_keys", "cleanup_get", "sleep"})

\* C31 witness: both operations have been called twice in a row, each time
\* after a first call that promoted or reaped something
BothCalledTwice == reruns = MaintenanceOps

\* a store call of cleanup_expired_messages, or the end of its scan
ReapStep ==
    /\ mpc \in {"cleanup_keys", "cleanup_get", "cleanup_delete", "cleanup_lrange",
                "cleanup_lrem", "cleanup_route"}
    /\ mvars' # mvars
    /\ crashes' = crashes

\* the envelopes of list with id i, in the order of the list
WithId(list, i) == SelectSeq(list, LAMBDA e : e.id = i)

\* C32: no step of cleanup_expired_messages touches a live claim: when the
\* visibility record of an id exists with expires_at >= now, the step leaves
\* the record, the processing-list entries of that id (their retry_count
\* included) and the copies of that id in main and in failed as they are
ReapSparesLiveClaims ==
    [][ReapStep =>
          \A i \in DOMAIN keys :
              LiveClaim(i) =>
                  /\ i \in DOMAIN keys' /\ keys'[i] = keys[i]
                  /\ WithId(processing', i) = WithId(processing, i)
                  /\ WithId(main', i) = WithId(main, i)
                  /\ WithId(failed', i) = WithId(failed, i)]_vars

\* C33: a maintenance cycle whose is_connected() fails makes no store call
\* of process_retry_queue or cleanup_expired_messages and computes no stats:
\* its only step is the return to the sleep of the loop, which leaves main,
\* processing, failed, retry and the keys unchanged; and the loop goes on:
\* a later cycle begins and reaches process_retry_queue
PingFailureSkipsCycle ==
    /\ [][(mpc = "not_connected" /\ mvars' # mvars) =>
              /\ mpc' = "sleep"
              /\ queues' = queues
              /\ mmoved' = 0]_vars
    /\ (mpc = "not_connected" ~> mpc = "retry_range")

\* C33 witness: is_connected() has failed in a cycle that had a due retry
\* entry to promote
SkippedWithWorkDue ==
    /\ mpc = "not_connected"
    /\ zrangebyscore(retry, now) # <<>>

\* cleanup_expired_messages reads the record of the key it is at, and the
\* record is corrupt
ReapReadsCorrupt ==
    /\ mpc = "cleanup_get" /\ mvars' # mvars
    /\ Head(mkeys) \in DOMAIN keys
    /\ corrupt(keys[Head(mkeys)])

\* C34: when cleanup_expired_messages meets a visibility record that does
\* not deserialize, it deletes the key and the processing-list entry of that
\* id, goes on with the remaining keys of the scan, and the maintenance
\* loop goes on (the task is in its scan or back in the sleep of the loop)
CorruptRecordRemoved ==
    [][ReapReadsCorrupt =>
          /\ Head(mkeys) \notin DOMAIN keys'
          /\ Count(processing', Head(mkeys)) = 0
          /\ IF Tail(mkeys) = <<>>
             THEN mpc' = "sleep"
             ELSE mpc' = "cleanup_get" /\ mkeys' = Tail(mkeys)]_vars

\* C35: the maintenance loop stops only when its cycle is complete, and a
\* worker stops only when it holds no claim: the step that stops the
\* maintenance task is taken from the sleep between two cycles, and the
\* step that stops a worker is taken between two calls of
\* _process_next_review, after the ack or nack of the claim it held
StopIsCooperative ==
    [][/\ (mpc # "stopped" /\ mpc' = "stopped") => mpc = "sleep"
       /\ \A w \in Workers :
             (wpc[w] # "stopped" /\ wpc'[w] = "stopped") => wpc[w] = "idle"]_vars

\* C36: a call of enqueue_review whose LPUSH reports that nothing was added,
\* or raises, returns False and leaves main, processing, failed, retry and
\* the keys as they were; a call whose LPUSH pushed returns True
EnqueueFailureReturnsFalse ==
    [][elast'.calls # elast.calls =>
          IF elast'.lpush = "pushed"
          THEN elast'.returned /\ main' = <<Envelope(next_id, sent'[next_id], 0, NoError)>> \o main
          ELSE ~elast'.returned /\ queues' = queues /\ next_id' = next_id]_vars

\* C36 witness: a call has returned False after LPUSH reported 0, with an
\* earlier envelope still in the store
EnqueueReturnedFalse ==
    /\ elast.lpush = "nothing added"
    /\ ~elast.returned
    /\ elast.calls = 2
    /\ main = <<>> /\ processing # <<>>

\* the keys of the rows that this step removes from the table
Removed(table, after) ==
    {table[k].review_id : k \in 1 .. Len(table)} \ {after[k].review_id : k \in 1 .. Len(after)}

\* the relations are emptied in the order structured_reviews,
\* review_statuses, raw_reviews, and a raw_reviews row is never deleted
\* while a row of the other two refers to it
DeletedInOrder ==
    /\ Removed(structured_reviews, structured_reviews') # {} => cpc = "structured_reviews"
    /\ Removed(review_statuses, review_statuses') # {} => cpc = "review_statuses"
    /\ \A review_id \in Removed(raw_reviews, raw_reviews') :
          /\ cpc = "raw_reviews"
          /\ ~key_exists(structured_reviews, review_id)
          /\ ~key_exists(review_statuses, review_id)

\* deleted_counts are the numbers of rows removed and the total is their sum
CountsAreRowsDeleted ==
    /\ cscan.deleted_counts = cscan.gone
    /\ cresult.deleted = cscan.gone.structured_reviews + cscan.gone.review_statuses
                            + cscan.gone.raw_reviews

\* clear_database was called with the correct token and has returned
ClearDatabaseReturned == cpc = "print" /\ password_matches(password_argument(carg))

\* C37 as stated: clear_database with the correct token deletes all rows of
\* structured_reviews, then of review_statuses, then of raw_reviews, no
\* raw_reviews row while a row refers to it, and reports the numbers of rows
\* deleted per relation and their sum
ClearDeletesAllRows ==
    /\ [][DeletedInOrder]_vars
    /\ [](ClearDatabaseReturned =>
            /\ cresult.success /\ cscan.rows = <<>>
            /\ CountsAreRowsDeleted)

\* C37 amended: the relations are emptied in that order and no raw_reviews
\* row is deleted while a row refers to it; when the call returns success
\* every row it read from the three relations is deleted and the counts are
\* the numbers of rows deleted, the total their sum; otherwise a row that
\* refers to the raw review it was about to delete was inserted after the
\* other relations were read, that raw review and the rest of its list are
\* still there, and the result is the error message without counts
ClearDeletesRowsItRead ==
    /\ [][DeletedInOrder]_vars
    /\ [](ClearDatabaseReturned =>
            IF cresult.success
            THEN /\ cscan.rows = <<>>
                 /\ CountsAreRowsDeleted
                 /\ cresult.message = DatabaseCleared
            ELSE /\ cresult = [success |-> FALSE, message |-> ErrorClearing, deleted |-> 0]
                 /\ cscan.rows # <<>>
                 /\ \A k \in 1 .. Len(cscan.rows) : key_exists(raw_reviews, cscan.rows[k])
                 /\ referenced(Head(cscan.rows)))

\* C37 witness: the call has returned success after deleting rows of all
\* three relations
ClearedThreeRelations ==
    /\ ClearDatabaseReturned /\ cresult.success
    /\ cscan.gone.structured_reviews >= 1
    /\ cscan.gone.review_statuses = 2
    /\ cscan.gone.raw_reviews = 2
    /\ raw_reviews = <<>>

\* retry_failed_review of worker w goes on to process_review_complete
RetryProceeds(w) == ppc[w] = "retry_increment" /\ ppc'[w] = "raw_get"

\* retry_failed_review of worker w returns an error
RetryRefused(w) ==
    /\ presult'[w] = "error"
    /\ <<ppc[w], runs>> # <<ppc'[w], runs'>>

\* C38: retry_failed_review goes on to the pipeline only when the status row
\* and the raw review exist and retry_count < max, and then retry_count is
\* one more than before; a call that returns an error changes no table; and
\* the retry_count of no status row exceeds max
RetryWithinMax ==
    /\ [][\A w \in Workers :
             /\ RetryProceeds(w) =>
                    /\ key_exists(review_statuses, prid[w])
                    /\ key_exists(raw_reviews, prid[w])
                    /\ current_retries(review_statuses, prid[w]) < inner_retries
                    /\ current_retries(review_statuses', prid[w])
                          = current_retries(review_statuses, prid[w]) + 1
             /\ RetryRefused(w) => db' = db]_vars
    /\ [](\A k \in 1 .. Len(review_statuses) :
             int(review_statuses[k].retry_count) <= inner_retries)

\* w2 holds a claim of envelope i that is not expired: its visibility record
\* and its processing-list entry are in place
NewerClaim(i) ==
    /\ wpc["w2"] = "process" /\ wid["w2"] = i
    /\ LiveClaim(i)
    /\ Count(processing, i) >= 1

\* C39: a store call of acknowledge_message or nack_message made by w1 for
\* an envelope whose claim by w1 was reaped, while w2 holds a newer claim of
\* it that is not expired, leaves the visibility record and the
\* processing-list entry of the newer claim in place
LateSettleSparesNewerClaim ==
    [][\A i \in Ids :
          (/\ wid["w1"] = i /\ wpc["w1"] # "idle" /\ wpc'["w1"] # wpc["w1"]
           /\ NewerClaim(i)) =>
              /\ i \in DOMAIN keys' /\ keys'[i] = keys[i]
              /\ Count(processing', i) >= 1]_vars

\* The retry_count half of C40: every envelope in main or in retry has
\* retry_count < max_retries (max_retries >= 1), and so has every envelope
\* that dequeue_for_processing has just taken from main
QueuedBelowMaxRetries ==
    /\ max_retries >= 1
    /\ \A k \in 1 .. Len(main) : main[k].retry_count < max_retries
    /\ \A k \in 1 .. Len(retry) : retry[k].member.retry_count < max_retries
    /\ \A w \in Workers : wpc[w] = "setex" => wmsg[w].retry_count < max_retries

\* A worker has claimed an envelope on its last permitted attempt, after two
\* failed ones
ClaimedOnLastAttempt ==
    /\ max_retries = 3
    /\ \E w \in Workers : wpc[w] = "setex" /\ wmsg[w].retry_count = 2

\* C40: every envelope in main or in retry has retry_count < max_retries,
\* so that no envelope is handed to a worker by dequeue_for_processing after
\* max_retries failed attempts on it (nack_message calls that returned True)
ClaimedBelowMaxFailures ==
    /\ QueuedBelowMaxRetries
    /\ \A w \in Workers : wpc[w] = "setex" => nacks[wmsg[w].id] < max_retries
====
